---- MODULE Spec2Model ----
(***************************************************************************)
(* l402-agent: the server gate (l402Middleware), the client orchestrator   *)
(* (l402Fetch) and the credential cache (CredentialCache).                  *)
(*                                                                         *)
(* JavaScript strings are sequences of one-character strings, so that the  *)
(* header codecs, toLowerCase, trim and the hex decoding are computed the  *)
(* way the code computes them.                                             *)
(***************************************************************************)
EXTENDS Integers, Sequences, FiniteSets, TLC

VARIABLES
    now,            \* Date.now(), in milliseconds
    gateCfg,        \* the options l402(opts) closed over: amountSats, expirySeconds
    pendingHashes,  \* the gate's Map paymentHash -> {invoice, amountSats, createdAt, expiryMs}
    reqs,           \* the requests in flight at the gate, one record per slot
    nReq,           \* requests received so far
    caches,         \* the CredentialCache instances: insertion-ordered entries
    calls,          \* the l402Fetch calls, one record per call
    nCall,          \* l402Fetch calls made so far
    nTick           \* clock advances so far

vars == <<now, gateCfg, pendingHashes, reqs, nReq, caches, calls, nCall, nTick>>

gateVars == <<gateCfg, pendingHashes, reqs, nReq>>
clientVars == <<caches, calls, nCall>>

(***************************************************************************)
(* Bounds of the model.                                                    *)
(***************************************************************************)
MaxRequests == 3
MaxGateTicks == 1
MaxCalls == 2
MaxClientTicks == 1
CustomMaxSize == 1
CustomTtlMs == 1000
MaxCacheSize == 2
MaxCacheOps == 3
MaxCacheTicks == 1
MaxBytes == 2

(***************************************************************************)
(* Strings.                                                                *)
(***************************************************************************)
UpperLetters == <<"A","B","C","D","E","F","G","H","I","J","K","L","M",
                  "N","O","P","Q","R","S","T","U","V","W","X","Y","Z">>
LowerLetters == <<"a","b","c","d","e","f","g","h","i","j","k","l","m",
                  "n","o","p","q","r","s","t","u","v","w","x","y","z">>

HexDigits == <<"0","1","2","3","4","5","6","7","8","9","a","b","c","d","e","f">>

Whitespace == {" ", "\t"}

\* the characters the model's strings are written in
Chars ==
    {UpperLetters[i] : i \in 1..26} \cup {LowerLetters[i] : i \in 1..26}
    \cup {HexDigits[i] : i \in 1..16} \cup Whitespace
    \cup {":", "=", "\"", ",", "/", "?", "-"}

LowerTable ==
    [c \in Chars |->
        IF \E i \in 1..26 : UpperLetters[i] = c
        THEN LowerLetters[CHOOSE i \in 1..26 : UpperLetters[i] = c]
        ELSE c]

UpperTable ==
    [c \in Chars |->
        IF \E i \in 1..26 : LowerLetters[i] = c
        THEN UpperLetters[CHOOSE i \in 1..26 : LowerLetters[i] = c]
        ELSE c]

LowerChar(c) == LowerTable[c]

UpperChar(c) == UpperTable[c]

\* String.prototype.toLowerCase
ToLowerCase(s) == [i \in 1..Len(s) |-> LowerChar(s[i])]

\* String.prototype.toUpperCase
ToUpperCase(s) == [i \in 1..Len(s) |-> UpperChar(s[i])]

\* String.prototype.startsWith
StartsWith(s, p) == Len(s) >= Len(p) /\ SubSeq(s, 1, Len(p)) = p

\* String.prototype.substring(from), from counted from 0
Substring(s, from) == SubSeq(s, from + 1, Len(s))

\* String.prototype.substring(from, to), counted from 0, to exclusive
SubstringTo(s, from, to) == SubSeq(s, from + 1, to)

\* String.prototype.indexOf(c): counted from 0, -1 when c does not occur
IndexOf(s, c) ==
    IF \E i \in 1..Len(s) : s[i] = c
    THEN (CHOOSE i \in 1..Len(s) : s[i] = c /\ \A j \in 1..(i - 1) : s[j] # c) - 1
    ELSE -1

\* String.prototype.trim
Trim(s) ==
    LET keep == {i \in 1..Len(s) : s[i] \notin Whitespace}
    IN  IF keep = {} THEN <<>>
        ELSE LET lo == CHOOSE i \in keep : \A j \in keep : i <= j
                 hi == CHOOSE i \in keep : \A j \in keep : j <= i
             IN  SubSeq(s, lo, hi)

\* the value of one hex digit, either case; -1 for any other character
HexTable ==
    [c \in Chars |->
        IF \E i \in 1..16 : HexDigits[i] = LowerTable[c]
        THEN (CHOOSE i \in 1..16 : HexDigits[i] = LowerTable[c]) - 1
        ELSE -1]

HexValue(c) == HexTable[c]

\* a test that takes any non-empty string for hex
IsHexStringAny(s) == Len(s) >= 1

\* /^[0-9a-fA-F]+$/.test(s)
IsHexString(s) == Len(s) >= 1 /\ \A i \in 1..Len(s) : HexValue(s[i]) >= 0

\* Buffer.from(s, 'hex'): whole pairs of hex digits up to the first pair that
\* is not one; a trailing single digit is dropped, nothing is raised
HexDecode(s) ==
    LET pairs == Len(s) \div 2
        good(k) == HexValue(s[2 * k - 1]) >= 0 /\ HexValue(s[2 * k]) >= 0
        n == IF \A k \in 1..pairs : good(k) THEN pairs
             ELSE (CHOOSE k \in 1..pairs : ~good(k) /\ \A j \in 1..(k - 1) : good(j)) - 1
    IN  [k \in 1..n |-> 16 * HexValue(s[2 * k - 1]) + HexValue(s[2 * k])]

\* Buffer.prototype.toString('hex'): two lower-case digits per byte
RECURSIVE HexEncode(_)
HexEncode(bytes) ==
    IF bytes = <<>> THEN <<>>
    ELSE <<HexDigits[(Head(bytes) \div 16) + 1], HexDigits[(Head(bytes) % 16) + 1]>>
         \o HexEncode(Tail(bytes))

\* crypto.createHash('sha256').update(bytes).digest('hex'): a collision-free
\* digest, written in lower-case hex digits
Sha256Hex(bytes) == <<"e">> \o HexEncode(bytes) \o <<"5", "d">>

(***************************************************************************)
(* The codec and the verifier (middleware).                                *)
(***************************************************************************)
L402Upper == <<"L", "4", "0", "2", " ">>
L402Lower == <<"l", "4", "0", "2", " ">>
Colon == <<":">>

\* what parseAuthHeader and parseWwwAuthenticate return for `null`
NullProof == [ok |-> FALSE, macaroon |-> <<>>, preimage |-> <<>>]

\* a verifier that compares the digest with the fingerprint as it is written
verifyPreimageCaseSensitive(preimage, paymentHash) ==
    Sha256Hex(HexDecode(preimage)) = paymentHash

\* verifyPreimage(preimage, paymentHash)
verifyPreimage(preimage, paymentHash) ==
    Sha256Hex(HexDecode(preimage)) = ToLowerCase(paymentHash)

\* parseAuthHeader(header); the absent header is the empty string
parseAuthHeader(header) ==
    IF header = <<>> THEN NullProof
    ELSE LET trimmed == Trim(header)
         IN  IF ~StartsWith(trimmed, L402Upper) /\ ~StartsWith(trimmed, L402Lower)
             THEN NullProof
             ELSE LET token == Trim(Substring(trimmed, 5))
                      colonIdx == IndexOf(token, ":")
                  IN  IF colonIdx = -1 THEN NullProof
                      ELSE LET macaroon == SubstringTo(token, 0, colonIdx)
                               preimage == Substring(token, colonIdx + 1)
                           IN  IF macaroon = <<>> \/ preimage = <<>> THEN NullProof
                               ELSE IF ~IsHexString(macaroon) THEN NullProof
                               ELSE IF ~IsHexString(preimage) THEN NullProof
                               ELSE [ok |-> TRUE, macaroon |-> macaroon,
                                     preimage |-> preimage]

\* buildWwwAuthenticateHeader(invoice, macaroon)
buildWwwAuthenticateHeader(invoice, macaroon) ==
    L402Upper \o <<"i","n","v","o","i","c","e","=","\"">> \o invoice
    \o <<"\"", ",", " ", "m","a","c","a","r","o","o","n","=","\"">> \o macaroon
    \o <<"\"">>

(***************************************************************************)
(* The server gate: l402(opts) and the middleware it returns.              *)
(***************************************************************************)
DefaultExpirySeconds == 600
PendingSweepThreshold == 100

Slots == {1, 2}

\* the inputs of the gate: Authorization header values
KnownPreimage == <<"0", "1">>
KnownHash == Sha256Hex(HexDecode(KnownPreimage))
MixedPreimage == <<"a", "B">>
MixedHash == Sha256Hex(HexDecode(MixedPreimage))

AuthHeaders ==
    { <<>>,                                                          \* no header
      L402Upper \o KnownHash \o Colon \o KnownPreimage,              \* a valid proof
      <<" ">> \o L402Lower \o <<" ">> \o ToUpperCase(MixedHash) \o Colon \o MixedPreimage
          \o <<" ">>,                                 \* valid: upper case, padded
      L402Upper \o KnownHash \o Colon \o KnownPreimage \o <<"f">>,   \* an odd digit more
      L402Upper \o KnownHash \o Colon \o MixedPreimage,              \* the wrong preimage
      L402Upper \o KnownHash \o KnownPreimage,                       \* no separator
      L402Upper \o KnownHash \o Colon \o <<"0", "g">> }              \* not hex

\* what wallet.createInvoice resolves to
InvoiceResults ==
    { [invoice |-> <<"p", "1">>, paymentHash |-> KnownHash],
      [invoice |-> <<"p", "2">>, paymentHash |-> KnownHash],
      [invoice |-> <<"p", "2">>, paymentHash |-> MixedHash] }

NoL402 == [set |-> FALSE, paymentHash |-> <<>>, preimage |-> <<>>, amountSats |-> 0]
NoBody == [error |-> "", amountSats |-> 0, invoice |-> <<>>, paymentHash |-> <<>>]

\* what the wallet answered to the request's createInvoice call
NoResult == [kind |-> "none", invoice |-> <<>>, paymentHash |-> <<>>]

\* a request slot: req.l402, the calls of next(), the res object (statusCode,
\* headers, body, calls of end), the calls of wallet.createInvoice with the
\* wallet's answer, and the keys of pendingHashes when the request came in
IdleReq ==
    [pc |-> "idle", header |-> <<>>, nextCalls |-> 0, l402 |-> NoL402,
     statusCode |-> 0, wwwAuth |-> <<>>, contentType |-> "", ended |-> 0,
     body |-> NoBody, invoiceCalls |-> 0, invoiceResult |-> NoResult,
     tableSeen |-> {}]

\* a gate that admits only the proofs of the obligations it has recorded
ProofVerifiesIfPending(header) ==
    LET parsed == parseAuthHeader(header)
    IN  /\ parsed.ok
        /\ verifyPreimage(parsed.preimage, ToLowerCase(parsed.macaroon))
        /\ ToLowerCase(parsed.macaroon) \in DOMAIN pendingHashes

\* a gate that admits every proof that parses
ProofUnverified(header) == parseAuthHeader(header).ok

\* a gate that admits a proof once: not while a request admitted on it is held
ProofVerifiesOnce(header) ==
    LET parsed == parseAuthHeader(header)
    IN  /\ parsed.ok
        /\ verifyPreimage(parsed.preimage, ToLowerCase(parsed.macaroon))
        /\ ~\E t \in Slots : /\ reqs[t].pc = "done"
                              /\ reqs[t].nextCalls > 0
                              /\ reqs[t].header = header

\* middleware lines 86-94: the request carries a proof that verifies
ProofVerifies(header) ==
    LET parsed == parseAuthHeader(header)
    IN  parsed.ok /\ verifyPreimage(parsed.preimage, ToLowerCase(parsed.macaroon))

\* a gate that attaches the proof as it was presented
AttachedL402AsPresented(header) ==
    LET parsed == parseAuthHeader(header)
    IN  [set |-> TRUE, paymentHash |-> parsed.macaroon,
         preimage |-> parsed.preimage, amountSats |-> gateCfg.amountSats]

\* middleware lines 96-100: the value of req.l402
AttachedL402(header) ==
    LET parsed == parseAuthHeader(header)
    IN  [set |-> TRUE, paymentHash |-> ToLowerCase(parsed.macaroon),
         preimage |-> ToLowerCase(parsed.preimage), amountSats |-> gateCfg.amountSats]

\* a gate that calls next() without returning and goes on to the challenge
ReceiveFallsThrough(s, header) ==
    /\ reqs[s].pc = "idle"
    /\ nReq < MaxRequests
    /\ nReq' = nReq + 1
    /\ reqs' = [reqs EXCEPT ![s] =
            [@ EXCEPT !.pc = "awaitInvoice", !.header = header,
                      !.l402 = IF ProofVerifies(header) THEN AttachedL402(header) ELSE @,
                      !.nextCalls = IF ProofVerifies(header) THEN @ + 1 ELSE @,
                      !.invoiceCalls = @ + 1,
                      !.tableSeen = DOMAIN pendingHashes]]
    /\ UNCHANGED <<now, gateCfg, pendingHashes, clientVars, nTick>>

\* middleware lines 84-113: up to next(), or up to the await of createInvoice
Receive(s, header) ==
    /\ reqs[s].pc = "idle"
    /\ nReq < MaxRequests
    /\ nReq' = nReq + 1
    /\ IF ProofVerifies(header)
       THEN reqs' = [reqs EXCEPT ![s] =
                [@ EXCEPT !.pc = "done", !.header = header,
                          !.l402 = AttachedL402(header), !.nextCalls = @ + 1,
                          !.tableSeen = DOMAIN pendingHashes]]
       ELSE reqs' = [reqs EXCEPT ![s] =
                [@ EXCEPT !.pc = "awaitInvoice", !.header = header,
                          !.invoiceCalls = @ + 1,
                          !.tableSeen = DOMAIN pendingHashes]]
    /\ UNCHANGED <<now, gateCfg, pendingHashes, clientVars, nTick>>

\* middleware lines 118-123: pendingHashes.set(paymentHash, {...})
PendingSet(table, invoice, paymentHash) ==
    [h \in DOMAIN table \cup {paymentHash} |->
        IF h = paymentHash
        THEN [invoice |-> invoice, amountSats |-> gateCfg.amountSats,
              createdAt |-> now, expiryMs |-> gateCfg.expirySeconds * 1000]
        ELSE table[h]]

\* a gate that sweeps from the hundredth entry on
PendingSweepAtThreshold(table) ==
    IF Cardinality(DOMAIN table) >= PendingSweepThreshold
    THEN LET live == {h \in DOMAIN table : ~(now - table[h].createdAt > table[h].expiryMs)}
         IN  [h \in live |-> table[h]]
    ELSE table

\* middleware lines 126-133: the sweep of the expired entries
PendingSweep(table) ==
    IF Cardinality(DOMAIN table) > PendingSweepThreshold
    THEN LET live == {h \in DOMAIN table : ~(now - table[h].createdAt > table[h].expiryMs)}
         IN  [h \in live |-> table[h]]
    ELSE table

\* a gate that tells in the body of the 402 that a proof was presented
InvoiceResolvedLeaky(s, invoice, paymentHash) ==
    /\ reqs[s].pc = "awaitInvoice"
    /\ pendingHashes' = PendingSweep(PendingSet(pendingHashes, invoice, paymentHash))
    /\ reqs' = [reqs EXCEPT ![s] =
            [@ EXCEPT !.pc = "done", !.statusCode = 402,
                      !.invoiceResult = [kind |-> "resolved", invoice |-> invoice,
                                         paymentHash |-> paymentHash],
                      !.wwwAuth = buildWwwAuthenticateHeader(invoice, paymentHash),
                      !.contentType = "application/json", !.ended = @ + 1,
                      !.body = [error |-> IF parseAuthHeader(reqs[s].header).ok
                                          THEN "Invalid Proof"
                                          ELSE "Payment Required",
                                amountSats |-> gateCfg.amountSats,
                                invoice |-> invoice, paymentHash |-> paymentHash]]]
    /\ UNCHANGED <<now, gateCfg, nReq, clientVars, nTick>>

\* middleware lines 115-147: createInvoice resolved with {invoice, paymentHash}
InvoiceResolved(s, invoice, paymentHash) ==
    /\ reqs[s].pc = "awaitInvoice"
    /\ pendingHashes' = PendingSweep(PendingSet(pendingHashes, invoice, paymentHash))
    /\ reqs' = [reqs EXCEPT ![s] =
            [@ EXCEPT !.pc = "done", !.statusCode = 402,
                      !.invoiceResult = [kind |-> "resolved", invoice |-> invoice,
                                         paymentHash |-> paymentHash],
                      !.wwwAuth = buildWwwAuthenticateHeader(invoice, paymentHash),
                      !.contentType = "application/json", !.ended = @ + 1,
                      !.body = [error |-> "Payment Required",
                                amountSats |-> gateCfg.amountSats,
                                invoice |-> invoice, paymentHash |-> paymentHash]]]
    /\ UNCHANGED <<now, gateCfg, nReq, clientVars, nTick>>

\* a gate that asks the wallet once more when createInvoice is rejected
InvoiceRejectedRetry(s) ==
    /\ reqs[s].pc = "awaitInvoice"
    /\ reqs' = [reqs EXCEPT ![s] =
            IF @.invoiceCalls < 2
            THEN [@ EXCEPT !.invoiceCalls = @ + 1]
            ELSE [@ EXCEPT !.pc = "done", !.statusCode = 500,
                           !.invoiceResult = [NoResult EXCEPT !.kind = "rejected"],
                           !.contentType = "application/json", !.ended = @ + 1,
                           !.body = [NoBody EXCEPT !.error = "Failed to create invoice"]]]
    /\ UNCHANGED <<now, gateCfg, pendingHashes, nReq, clientVars, nTick>>

\* middleware lines 148-156: createInvoice rejected
InvoiceRejected(s) ==
    /\ reqs[s].pc = "awaitInvoice"
    /\ reqs' = [reqs EXCEPT ![s] =
            [@ EXCEPT !.pc = "done", !.statusCode = 500,
                      !.invoiceResult = [NoResult EXCEPT !.kind = "rejected"],
                      !.contentType = "application/json", !.ended = @ + 1,
                      !.body = [NoBody EXCEPT !.error = "Failed to create invoice"]]]
    /\ UNCHANGED <<now, gateCfg, pendingHashes, nReq, clientVars, nTick>>

\* the framework is done with the request: its req and res objects are dropped
Release(s) ==
    /\ reqs[s].pc = "done"
    /\ reqs' = [reqs EXCEPT ![s] = IdleReq]
    /\ UNCHANGED <<now, gateCfg, pendingHashes, nReq, clientVars, nTick>>

\* Date.now() advances
GateTick ==
    /\ nTick < MaxGateTicks
    /\ nTick' = nTick + 1
    /\ now' = now + gateCfg.expirySeconds * 1000
    /\ UNCHANGED <<gateVars, clientVars>>

\* l402(opts): a wallet and a positive amountSats; expirySeconds defaults to 600
GateInit ==
    /\ now = 0
    /\ nTick = 0
    /\ gateCfg \in [amountSats : {1, 25}, expirySeconds : {DefaultExpirySeconds}]
    /\ pendingHashes = <<>>
    /\ reqs = [s \in Slots |-> IdleReq]
    /\ nReq = 0
    /\ caches = <<>>
    /\ calls = <<>>
    /\ nCall = 0

GateNext ==
    \/ \E s \in Slots, h \in AuthHeaders : Receive(s, h)
    \/ \E s \in Slots, r \in InvoiceResults :
            InvoiceResolved(s, r.invoice, r.paymentHash)
    \/ \E s \in Slots : InvoiceRejected(s)
    \/ \E s \in Slots : Release(s)
    \/ GateTick

SpecGate == GateInit /\ [][GateNext]_vars

(***************************************************************************)
(* The gate with a table that many challenges have filled: some hundred    *)
(* obligations, issued long ago, a whole expiry ago, or just now.          *)
(***************************************************************************)
MaxOver == 1

\* the fingerprint of the i-th obligation issued
HashOf(i) == Sha256Hex(<<i>>)

\* how many obligations the table holds at the start
TableSizes == (PendingSweepThreshold - 2)..(PendingSweepThreshold + MaxOver)

\* when the obligations of the table were issued: all of them just now, all
\* of them long ago, or one after the other long ago, a whole expiry ago and
\* just now
TableAges == {"fresh", "old", "mixed"}

CreatedAt(age, i) ==
    IF age = "fresh" THEN now
    ELSE IF age = "old" THEN 0
    ELSE IF i % 3 = 0 THEN 0
    ELSE IF i % 3 = 1 THEN now - DefaultExpirySeconds * 1000
    ELSE now

\* the requests: without a header, and with the proof of the first obligation
TableHeaders == { <<>>, L402Upper \o HashOf(1) \o Colon \o KnownPreimage }

\* what wallet.createInvoice resolves to: the fingerprint of an obligation
\* of the table, or a new one
TableInvoiceResults ==
    { [invoice |-> <<"p", "1">>, paymentHash |-> HashOf(3)],
      [invoice |-> <<"p", "2">>, paymentHash |-> HashOf(200)],
      [invoice |-> <<"p", "3">>, paymentHash |-> HashOf(201)] }

TableInit ==
    /\ now = DefaultExpirySeconds * 1000 + 1
    /\ nTick = 0
    /\ gateCfg = [amountSats |-> 1, expirySeconds |-> DefaultExpirySeconds]
    /\ \E n \in TableSizes, age \in TableAges :
          pendingHashes =
              [h \in {HashOf(i) : i \in 1..n} |->
                  [invoice |-> <<"p", "0">>, amountSats |-> 1,
                   createdAt |-> CreatedAt(age, CHOOSE i \in 1..n : HashOf(i) = h),
                   expiryMs |-> DefaultExpirySeconds * 1000]]
    /\ reqs = [s \in Slots |-> IdleReq]
    /\ nReq = 0
    /\ caches = <<>>
    /\ calls = <<>>
    /\ nCall = 0

TableNext ==
    \/ \E s \in Slots, h \in TableHeaders : Receive(s, h)
    \/ \E s \in Slots, r \in TableInvoiceResults :
            InvoiceResolved(s, r.invoice, r.paymentHash)
    \/ \E s \in Slots : InvoiceRejected(s)
    \/ \E s \in Slots : Release(s)
    \/ GateTick

SpecTable == TableInit /\ [][TableNext]_vars

(***************************************************************************)
(* The credential cache (CredentialCache).  A cache is its Map, as the     *)
(* sequence of its entries in insertion order, with its options.  An       *)
(* expiresAt of 0 stands for every falsy value (0, null, undefined).       *)
(***************************************************************************)
DefaultMaxSize == 1000
DefaultTtlMs == 3600000
FetchTtlMs == 3600000

\* new CredentialCache(opts)
NewCache(maxSize, defaultTtlMs) ==
    [entries |-> <<>>, maxSize |-> maxSize, defaultTtlMs |-> defaultTtlMs,
     closed |-> FALSE]

\* URL strings, each with what new URL(url) reads off it
Urls ==
    { [href |-> "https://h/a", origin |-> "https://h", pathname |-> "/a"],
      [href |-> "https://h/a?q=1", origin |-> "https://h", pathname |-> "/a"],
      [href |-> "https://h/b", origin |-> "https://h", pathname |-> "/b"],
      [href |-> "https://g/a", origin |-> "https://g", pathname |-> "/a"] }

\* a cache whose key keeps the query string of the URL
CacheKeyWithQuery(url, method) ==
    [method |-> method, origin |-> url.origin, pathname |-> url.href]

\* CredentialCache.key(url, method): `${method}:${origin}${pathname}`
CacheKey(url, method) == [method |-> method, origin |-> url.origin, pathname |-> url.pathname]

RECURSIVE SeqRemove(_, _)
\* Map.delete(k) on the entries
SeqRemove(entries, k) ==
    IF entries = <<>> THEN <<>>
    ELSE IF Head(entries).key = k THEN SeqRemove(Tail(entries), k)
    ELSE <<Head(entries)>> \o SeqRemove(Tail(entries), k)

HasKey(entries, k) == \E i \in 1..Len(entries) : entries[i].key = k

EntryOf(entries, k) == entries[CHOOSE i \in 1..Len(entries) : entries[i].key = k]

\* a Map whose set leaves the value of a key that is there as it is
SeqPutKeeps(entries, v) ==
    IF HasKey(entries, v.key) THEN entries ELSE Append(entries, v)

\* Map.set(k, v) on the entries: in place when k is there, else at the end
SeqPut(entries, v) ==
    IF HasKey(entries, v.key)
    THEN [i \in 1..Len(entries) |-> IF entries[i].key = v.key THEN v ELSE entries[i]]
    ELSE Append(entries, v)

\* a cache that gives every entry its default time to live
CacheSetDefaultTtl(cache, url, credential, method) ==
    LET k == CacheKey(url, method)
        kept == IF Len(cache.entries) >= cache.maxSize /\ cache.entries # <<>>
                THEN Tail(cache.entries)
                ELSE cache.entries
        entry == [key |-> k, macaroon |-> credential.macaroon,
                  preimage |-> credential.preimage,
                  expiresAt |-> now + cache.defaultTtlMs,
                  storedAt |-> now]
    IN  [cache EXCEPT !.entries = SeqPut(kept, entry)]

\* a cache that evicts only when it is over its capacity
CacheSetEvictsLate(cache, url, credential, method) ==
    LET k == CacheKey(url, method)
        kept == IF Len(cache.entries) > cache.maxSize /\ cache.entries # <<>>
                THEN Tail(cache.entries)
                ELSE cache.entries
        entry == [key |-> k, macaroon |-> credential.macaroon,
                  preimage |-> credential.preimage,
                  expiresAt |-> IF credential.expiresAt # 0 THEN credential.expiresAt
                                ELSE now + cache.defaultTtlMs,
                  storedAt |-> now]
    IN  [cache EXCEPT !.entries = SeqPut(kept, entry)]

\* a cache that evicts the entry inserted last
CacheSetEvictsNewest(cache, url, credential, method) ==
    LET k == CacheKey(url, method)
        kept == IF Len(cache.entries) >= cache.maxSize /\ cache.entries # <<>>
                THEN SubSeq(cache.entries, 1, Len(cache.entries) - 1)
                ELSE cache.entries
        entry == [key |-> k, macaroon |-> credential.macaroon,
                  preimage |-> credential.preimage,
                  expiresAt |-> IF credential.expiresAt # 0 THEN credential.expiresAt
                                ELSE now + cache.defaultTtlMs,
                  storedAt |-> now]
    IN  [cache EXCEPT !.entries = SeqPut(kept, entry)]

\* CredentialCache.set(url, credential, method)
CacheSet(cache, url, credential, method) ==
    LET k == CacheKey(url, method)
        kept == IF Len(cache.entries) >= cache.maxSize /\ cache.entries # <<>>
                THEN Tail(cache.entries)
                ELSE cache.entries
        entry == [key |-> k, macaroon |-> credential.macaroon,
                  preimage |-> credential.preimage,
                  expiresAt |-> IF credential.expiresAt # 0 THEN credential.expiresAt
                                ELSE now + cache.defaultTtlMs,
                  storedAt |-> now]
    IN  [cache EXCEPT !.entries = SeqPut(kept, entry)]

Expired(entry) == entry.expiresAt # 0 /\ now > entry.expiresAt

\* CredentialCache.get(url, method): the credential, or null
NullCredential == [found |-> FALSE, macaroon |-> <<>>, preimage |-> <<>>]

CacheGet(cache, url, method) ==
    LET k == CacheKey(url, method)
    IN  IF ~HasKey(cache.entries, k) THEN NullCredential
        ELSE IF Expired(EntryOf(cache.entries, k)) THEN NullCredential
        ELSE [found |-> TRUE, macaroon |-> EntryOf(cache.entries, k).macaroon,
              preimage |-> EntryOf(cache.entries, k).preimage]

\* a cache whose get leaves the expired entry where it is
CacheAfterGetKeeps(cache, url, method) == cache

\* CredentialCache.get(url, method): the cache it leaves
CacheAfterGet(cache, url, method) ==
    LET k == CacheKey(url, method)
    IN  IF HasKey(cache.entries, k) /\ Expired(EntryOf(cache.entries, k))
        THEN [cache EXCEPT !.entries = SeqRemove(@, k)]
        ELSE cache

\* CredentialCache.invalidate(url, method)
CacheInvalidate(cache, url, method) ==
    [cache EXCEPT !.entries = SeqRemove(@, CacheKey(url, method))]

\* a sweep that stops at the first expired entry it removes
CacheCleanupFirst(cache) ==
    IF \E i \in 1..Len(cache.entries) : Expired(cache.entries[i])
    THEN [cache EXCEPT !.entries =
              SeqRemove(@, cache.entries[CHOOSE i \in 1..Len(cache.entries) :
                               /\ Expired(cache.entries[i])
                               /\ \A j \in 1..(i - 1) : ~Expired(cache.entries[j])].key)]
    ELSE cache

\* CredentialCache.cleanup()
CacheCleanup(cache) ==
    [cache EXCEPT !.entries = SelectSeq(@, LAMBDA e : ~Expired(e))]

\* CredentialCache.clear()
CacheClear(cache) == [cache EXCEPT !.entries = <<>>]

\* CredentialCache.close()
CacheClose(cache) == [cache EXCEPT !.closed = TRUE]

\* new CredentialCache(opts); an option of 0 stands for every falsy value
CredentialCacheOf(opts) ==
    NewCache(IF opts.maxSize # 0 THEN opts.maxSize ELSE DefaultMaxSize,
             IF opts.defaultTtlMs # 0 THEN opts.defaultTtlMs ELSE DefaultTtlMs)

(***************************************************************************)
(* The client codec.                                                       *)
(***************************************************************************)
NullChallenge == [ok |-> FALSE, invoice |-> <<>>, macaroon |-> <<>>]

Quote == "\""

\* rest.match(/<name>="([^"]+)"/i): the places where the pattern matches
QuotedMatches(rest, name) ==
    {i \in 1..Len(rest) :
        /\ i + Len(name) + 1 <= Len(rest)
        /\ ToLowerCase(SubSeq(rest, i, i + Len(name) - 1)) = name
        /\ rest[i + Len(name)] = "="
        /\ rest[i + Len(name) + 1] = Quote
        /\ \E j \in (i + Len(name) + 3)..Len(rest) :
              /\ rest[j] = Quote
              /\ \A k \in (i + Len(name) + 2)..(j - 1) : rest[k] # Quote}

\* the group captured by the leftmost match
QuotedCapture(rest, name) ==
    LET i == CHOOSE m \in QuotedMatches(rest, name) :
                 \A n \in QuotedMatches(rest, name) : m <= n
        from == i + Len(name) + 2
        to == CHOOSE j \in (from + 1)..Len(rest) :
                  rest[j] = Quote /\ \A k \in from..(j - 1) : rest[k] # Quote
    IN  SubSeq(rest, from, to - 1)

\* parseWwwAuthenticate(header); the absent header is the empty string
parseWwwAuthenticate(header) ==
    IF header = <<>> THEN NullChallenge
    ELSE LET trimmed == Trim(header)
         IN  IF ~StartsWith(trimmed, L402Upper) /\ ~StartsWith(trimmed, L402Lower)
             THEN NullChallenge
             ELSE LET rest == Substring(trimmed, 5)
                  IN  IF QuotedMatches(rest, <<"i","n","v","o","i","c","e">>) = {}
                      THEN NullChallenge
                      ELSE IF QuotedMatches(rest, <<"m","a","c","a","r","o","o","n">>) = {}
                      THEN NullChallenge
                      ELSE [ok |-> TRUE,
                            invoice |-> QuotedCapture(rest, <<"i","n","v","o","i","c","e">>),
                            macaroon |-> QuotedCapture(rest,
                                             <<"m","a","c","a","r","o","o","n">>)]

\* `L402 ${macaroon}:${preimage}`
AuthorizationValue(macaroon, preimage) == L402Upper \o macaroon \o Colon \o preimage

(***************************************************************************)
(* The client orchestrator: l402Fetch(url, opts).  A call reads an option  *)
(* where the code first reads it: the method and the cache when it starts, *)
(* the wallet and maxAmountSats when the bare response is in, onPayment    *)
(* when the payment is in.                                                 *)
(***************************************************************************)
CallIds == {1}
CacheIds == {"global", "custom"}

GetMethod == <<"G", "E", "T">>
FetchMethods == { <<>>, <<"p", "o", "s", "t">> }

\* the fetch options of the caller (opts without wallet, maxAmountSats,
\* onPayment, cache, credentialCache): a plain GET, and a post with a body
NoFetchOpts == [method |-> <<>>, body |-> "", headers |-> ""]
FetchOptions ==
    { NoFetchOpts,
      [method |-> <<"p", "o", "s", "t">>, body |-> "payload",
       headers |-> "content-type: text/plain"],
      [method |-> <<"P", "O", "S", "T">>, body |-> "payload",
       headers |-> "content-type: text/plain"] }

FetchOptsOf(m) == CHOOSE o \in FetchOptions : o.method = m

\* the responses a server may give: status, WWW-Authenticate, body.amountSats
\* (0: the body is not JSON or has no amountSats)
KnownChallenge == buildWwwAuthenticateHeader(<<"p", "1">>, KnownHash)
BrokenChallenge == L402Upper \o <<"i","n","v","o","i","c","e","=","\"","p","1","\"">>

Responses ==
    { [status |-> 200, www |-> <<>>, bodyAmount |-> 0],
      [status |-> 401, www |-> KnownChallenge, bodyAmount |-> 50],
      [status |-> 402, www |-> KnownChallenge, bodyAmount |-> 50],
      [status |-> 402, www |-> KnownChallenge, bodyAmount |-> 0],
      [status |-> 402, www |-> BrokenChallenge, bodyAmount |-> 50] }

Pending == [status |-> 0, www |-> <<>>, bodyAmount |-> 0]

\* the responses whose 402 states an amount in its body
PricedResponses == {r \in Responses : r.status # 402 \/ r.bodyAmount # 0}

\* the responses to a fetch that carries a proof, one of each status: the
\* code reads the status of the one (line 210) and nothing of the other
ProofResponses ==
    {r \in Responses : r.status = 200 \/ (r.www = KnownChallenge /\ r.bodyAmount = 50)}

\* client lines 233-234: the challenge of each response
ChallengeIn == [r \in Responses |-> parseWwwAuthenticate(r.www)]

\* what wallet.decodeInvoice(invoice) does: raises, or returns {amountSats}
\* with amountSats null, undefined or a number
DecodeOutcomes ==
    { [kind |-> "throws", sats |-> 0], [kind |-> "null", sats |-> 0],
      [kind |-> "undefined", sats |-> 0], [kind |-> "number", sats |-> 25],
      [kind |-> "number", sats |-> 50] }

\* what wallet.payInvoice(invoice) does: rejects, or resolves to {preimage}
\* (the empty preimage: none returned)
PayOutcomes ==
    { [kind |-> "rejected", preimage |-> <<>>], [kind |-> "resolved", preimage |-> <<>>],
      [kind |-> "resolved", preimage |-> KnownPreimage],
      [kind |-> "resolved", preimage |-> MixedPreimage] }

\* opts.wallet: none, one with payInvoice, one with payInvoice and decodeInvoice
Wallets == {"none", "plain", "decoding"}

\* opts.maxAmountSats
Caps == { [set |-> FALSE, sats |-> 0], [set |-> TRUE, sats |-> 30] }

NoAmount == [kind |-> "null", sats |-> 0]
NoResponse == [kind |-> "none", resp |-> Pending, dispatch |-> 0, error |-> ""]

IdleCall ==
    [pc |-> "idle", url |-> "", method |-> <<>>, cache |-> "none",
     fetchOpts |-> NoFetchOpts,
     wallet |-> "unread", cap |-> [set |-> FALSE, sats |-> 0], log |-> <<>>,
     challenge |-> NullChallenge, amount |-> NoAmount, preimage |-> <<>>,
     payCalls |-> 0, decodeCalls |-> 0, onPaymentCalls |-> 0, cacheSets |-> 0,
     cacheInvalidates |-> 0, result |-> NoResponse]

\* client lines 197-198: the cache the call uses
CacheInstance(useCache, credentialCache) ==
    IF credentialCache # "none" THEN credentialCache
    ELSE IF useCache THEN "global" ELSE "none"

\* a fetch(url, {...fetchOpts, headers}) with the Authorization header auth
\* (empty: none) set in the headers; kind names the fetch: "cached" (line
\* 207), "bare" (line 220), "replay" (line 315)
Dispatch(log, kind, url, fetchOpts, auth) ==
    Append(log, [kind |-> kind, url |-> url, method |-> fetchOpts.method,
                 body |-> fetchOpts.body, headers |-> fetchOpts.headers,
                 auth |-> auth, resp |-> Pending])

\* a client that replays with the Authorization header alone
RetryOptsBare(fetchOpts) == NoFetchOpts

\* client lines 310-313: retryOpts, but for the Authorization header
RetryOpts(fetchOpts) == fetchOpts

\* the response to the fetch in flight has come in
Answered(log, resp) == [log EXCEPT ![Len(log)].resp = resp]

Returned(resp, dispatch) ==
    [kind |-> "response", resp |-> resp, dispatch |-> dispatch, error |-> ""]

Raised(error) == [NoResponse EXCEPT !.kind = "error", !.error = error]

\* client lines 197-207 and 220: the cache lookup and the first fetch
StartCall(c, url, m, useCache, credentialCache) ==
    LET method == ToUpperCase(IF m = <<>> THEN GetMethod ELSE m)
        inst == CacheInstance(useCache, credentialCache)
        cached == IF inst = "none" THEN NullCredential
                  ELSE CacheGet(caches[inst], url, method)
    IN  /\ calls[c].pc = "idle"
        /\ nCall < MaxCalls
        /\ nCall' = nCall + 1
        /\ caches' = IF inst = "none" THEN caches
                     ELSE [caches EXCEPT ![inst] = CacheAfterGet(@, url, method)]
        /\ calls' = [calls EXCEPT ![c] =
                [@ EXCEPT !.pc = IF cached.found THEN "awaitCached" ELSE "awaitBare",
                          !.url = url.href, !.method = method, !.cache = inst,
                          !.fetchOpts = FetchOptsOf(m),
                          !.log =
                              IF cached.found
                              THEN Dispatch(<<>>, "cached", url.href, FetchOptsOf(m),
                                       AuthorizationValue(cached.macaroon, cached.preimage))
                              ELSE Dispatch(<<>>, "bare", url.href, FetchOptsOf(m),
                                            <<>>)]]
        /\ UNCHANGED <<now, gateVars, nTick>>

UrlOf(href) == CHOOSE u \in Urls : u.href = href

\* the URLs of one resource: with and without a query string
QueryUrls == {u \in Urls : u.origin = "https://h" /\ u.pathname = "/a"}

\* a client that takes the answers 401 and 402 for the accepted ones
CachedAcceptedInverted(resp) == resp.status = 401 \/ resp.status = 402

\* a client that takes only 402 for a rejection of the cached credential
CachedAcceptedBut402(resp) == resp.status # 402

\* client line 210: the cached credentials worked
CachedAccepted(resp) == resp.status # 401 /\ resp.status # 402

\* a client that sends the cached credential once more when it is rejected
CachedResponseAgain(c, resp) ==
    /\ calls[c].pc = "awaitCached"
    /\ IF CachedAccepted(resp)
       THEN calls' = [calls EXCEPT ![c] =
                [@ EXCEPT !.pc = "done", !.log = Answered(@, resp),
                          !.result = Returned(resp, Len(calls[c].log))]]
       ELSE calls' = [calls EXCEPT ![c] =
                [@ EXCEPT !.pc = IF Len(calls[c].log) < 2 THEN "awaitCached"
                                 ELSE "awaitBare",
                          !.log = Dispatch(Answered(@, resp),
                                           IF Len(calls[c].log) < 2 THEN "cached"
                                           ELSE "bare",
                                           calls[c].url, calls[c].fetchOpts,
                                           IF Len(calls[c].log) < 2
                                           THEN calls[c].log[1].auth
                                           ELSE <<>>)]]
    /\ UNCHANGED <<now, gateVars, caches, nCall, nTick>>

\* client lines 207-220: the response to the fetch with the cached credential
CachedResponse(c, resp) ==
    /\ calls[c].pc = "awaitCached"
    /\ IF CachedAccepted(resp)
       THEN /\ calls' = [calls EXCEPT ![c] =
                    [@ EXCEPT !.pc = "done", !.log = Answered(@, resp),
                              !.result = Returned(resp, Len(calls[c].log))]]
            /\ UNCHANGED caches
       ELSE /\ caches' = [caches EXCEPT ![calls[c].cache] =
                    CacheInvalidate(@, UrlOf(calls[c].url), calls[c].method)]
            /\ calls' = [calls EXCEPT ![c] =
                    [@ EXCEPT !.pc = "awaitBare", !.cacheInvalidates = @ + 1,
                              !.log = Dispatch(Answered(@, resp), "bare",
                                               calls[c].url, calls[c].fetchOpts,
                                               <<>>)]]
    /\ UNCHANGED <<now, gateVars, nCall, nTick>>

\* a client that takes 401 for a payment challenge too
PaymentRequiredOr401(resp) == resp.status = 402 \/ resp.status = 401

\* client line 223: the response is payment-required
PaymentRequired(resp) == resp.status = 402

\* a client that pays whatever the challenge header holds
AutoPayEligibleUnparsed(resp, wallet) == wallet # "none"

\* client lines 228-239: there is a wallet and the challenge parses
AutoPayEligible(resp, wallet) ==
    /\ wallet # "none"
    /\ ChallengeIn[resp].ok

\* client lines 245-264: amountSats after the decode and the fallback to the body
DeterminedAmount(wallet, decoded, resp) ==
    LET first == IF wallet = "decoding" /\ decoded.kind # "throws" THEN decoded
                 ELSE NoAmount
    IN  IF first.kind = "null" /\ resp.bodyAmount # 0
        THEN [kind |-> "number", sats |-> resp.bodyAmount]
        ELSE first

\* a client that lets an amount of up to twice the cap pass
ExceedsCapDoubled(amount, cap) == amount.kind = "number" /\ amount.sats > 2 * cap.sats

\* a client that refuses to pay when it has no amount to compare
ExceedsCapOrUnknown(amount, cap) == amount.kind # "number" \/ amount.sats > cap.sats

\* client line 266: amountSats !== null && amountSats > maxAmountSats
ExceedsCap(amount, cap) == amount.kind = "number" /\ amount.sats > cap.sats

\* client lines 220-274: the response to the bare fetch, up to the return, the
\* cap error or the call of wallet.payInvoice
BareResponse(c, resp, wallet, cap, decoded) ==
    /\ calls[c].pc = "awaitBare"
    /\ IF ~PaymentRequired(resp)
       THEN calls' = [calls EXCEPT ![c] =
                [@ EXCEPT !.pc = "done", !.log = Answered(@, resp),
                          !.result = Returned(resp, Len(calls[c].log))]]
       ELSE IF ~AutoPayEligible(resp, wallet)
       THEN calls' = [calls EXCEPT ![c] =
                [@ EXCEPT !.pc = "done", !.log = Answered(@, resp), !.wallet = wallet,
                          !.result = Returned(resp, Len(calls[c].log))]]
       ELSE LET amount == IF cap.set THEN DeterminedAmount(wallet, decoded, resp)
                          ELSE NoAmount
                decodes == IF cap.set /\ wallet = "decoding" THEN 1 ELSE 0
            IN  IF cap.set /\ ExceedsCap(amount, cap)
                THEN calls' = [calls EXCEPT ![c] =
                        [@ EXCEPT !.pc = "done", !.log = Answered(@, resp),
                                  !.wallet = wallet, !.cap = cap, !.amount = amount,
                                  !.challenge = ChallengeIn[resp],
                                  !.decodeCalls = @ + decodes,
                                  !.result = Raised("CapExceeded")]]
                ELSE calls' = [calls EXCEPT ![c] =
                        [@ EXCEPT !.pc = "awaitPay", !.log = Answered(@, resp),
                                  !.wallet = wallet, !.cap = cap, !.amount = amount,
                                  !.challenge = ChallengeIn[resp],
                                  !.decodeCalls = @ + decodes,
                                  !.payCalls = @ + 1]]
    /\ UNCHANGED <<now, gateVars, caches, nCall, nTick>>

\* a client that goes on without looking at the preimage it was given
PreimageMissingIgnored(paid) == FALSE

\* client line 277: !preimage
PreimageMissing(paid) == paid.preimage = <<>>

\* client lines 274-315: the answer of wallet.payInvoice, the callback, the
\* cache write and the replay
PayResult(c, paid, onPayment, callbackThrows) ==
    /\ calls[c].pc = "awaitPay"
    /\ IF paid.kind = "rejected"
       THEN /\ calls' = [calls EXCEPT ![c] =
                    [@ EXCEPT !.pc = "done", !.result = Raised("PayFailed")]]
            /\ UNCHANGED caches
       ELSE IF PreimageMissing(paid)
       THEN /\ calls' = [calls EXCEPT ![c] =
                    [@ EXCEPT !.pc = "done", !.result = Raised("NoPreimage")]]
            /\ UNCHANGED caches
       ELSE LET decodes == IF onPayment /\ calls[c].wallet = "decoding" THEN 1 ELSE 0
                called == IF onPayment THEN 1 ELSE 0
            IN  IF onPayment /\ callbackThrows
                THEN /\ calls' = [calls EXCEPT ![c] =
                            [@ EXCEPT !.pc = "done", !.preimage = paid.preimage,
                                      !.decodeCalls = @ + decodes,
                                      !.onPaymentCalls = @ + called,
                                      !.result = Raised("CallbackThrew")]]
                     /\ UNCHANGED caches
                ELSE /\ caches' =
                            IF calls[c].cache = "none" THEN caches
                            ELSE [caches EXCEPT ![calls[c].cache] =
                                    CacheSet(@, UrlOf(calls[c].url),
                                             [macaroon |-> calls[c].challenge.macaroon,
                                              preimage |-> paid.preimage,
                                              expiresAt |-> now + FetchTtlMs],
                                             calls[c].method)]
                     /\ calls' = [calls EXCEPT ![c] =
                            [@ EXCEPT !.pc = "awaitReplay", !.preimage = paid.preimage,
                                      !.decodeCalls = @ + decodes,
                                      !.onPaymentCalls = @ + called,
                                      !.cacheSets =
                                          IF calls[c].cache = "none" THEN @ ELSE @ + 1,
                                      !.log = Dispatch(@, "replay", calls[c].url,
                                          RetryOpts(calls[c].fetchOpts),
                                          AuthorizationValue(calls[c].challenge.macaroon,
                                                             paid.preimage))]]
    /\ UNCHANGED <<now, gateVars, nCall, nTick>>

\* a client that pays once more when the replay is answered with 402
ReplayResponseRetry(c, resp) ==
    /\ calls[c].pc = "awaitReplay"
    /\ calls' = [calls EXCEPT ![c] =
            IF resp.status = 402 /\ @.payCalls < 2
            THEN [@ EXCEPT !.pc = "awaitPay", !.log = Answered(@, resp),
                           !.payCalls = @ + 1]
            ELSE [@ EXCEPT !.pc = "done", !.log = Answered(@, resp),
                           !.result = Returned(resp, Len(calls[c].log))]]
    /\ UNCHANGED <<now, gateVars, caches, nCall, nTick>>

\* a client that drops the credential it has just stored when the replay is
\* answered with 401 or 402
ReplayResponseInvalidates(c, resp) ==
    /\ calls[c].pc = "awaitReplay"
    /\ calls' = [calls EXCEPT ![c] =
            [@ EXCEPT !.pc = "done", !.log = Answered(@, resp),
                      !.result = Returned(resp, Len(calls[c].log))]]
    /\ caches' = IF CachedAccepted(resp) \/ calls[c].cache = "none" THEN caches
                 ELSE [caches EXCEPT ![calls[c].cache] =
                          CacheInvalidate(@, UrlOf(calls[c].url), calls[c].method)]
    /\ UNCHANGED <<now, gateVars, nCall, nTick>>

\* client line 315: the response to the replay is the result
ReplayResponse(c, resp) ==
    /\ calls[c].pc = "awaitReplay"
    /\ calls' = [calls EXCEPT ![c] =
            [@ EXCEPT !.pc = "done", !.log = Answered(@, resp),
                      !.result = Returned(resp, Len(calls[c].log))]]
    /\ UNCHANGED <<now, gateVars, caches, nCall, nTick>>

\* the caller is done with the result of the call
ReleaseCall(c) ==
    /\ calls[c].pc = "done"
    /\ calls' = [calls EXCEPT ![c] = IdleCall]
    /\ UNCHANGED <<now, gateVars, caches, nCall, nTick>>

\* Date.now() advances, past the expiry of what the cache holds
ClientTick ==
    /\ nTick < MaxClientTicks
    /\ nTick' = nTick + 1
    /\ now' = now + FetchTtlMs + 1
    /\ UNCHANGED <<gateVars, clientVars>>

\* a timer that close() does not stop
CleanupTimerAlways(inst) ==
    /\ caches' = [caches EXCEPT ![inst] = CacheCleanup(@)]
    /\ caches' # caches
    /\ UNCHANGED <<now, gateVars, calls, nCall, nTick>>

\* a cache whose timer never runs
CleanupTimerStopped(inst) == FALSE /\ UNCHANGED vars

\* cache lines 17 and 114-121: the interval timer of a cache runs cleanup()
CleanupTimer(inst) ==
    /\ ~caches[inst].closed
    /\ caches' = [caches EXCEPT ![inst] = CacheCleanup(@)]
    /\ caches' # caches
    /\ UNCHANGED <<now, gateVars, calls, nCall, nTick>>

ClientInit ==
    /\ now = 0
    /\ nTick = 0
    /\ gateCfg = [amountSats |-> 1, expirySeconds |-> DefaultExpirySeconds]
    /\ pendingHashes = <<>>
    /\ reqs = [s \in Slots |-> IdleReq]
    /\ nReq = 0
    /\ caches = [i \in CacheIds |->
                    IF i = "global" THEN NewCache(DefaultMaxSize, DefaultTtlMs)
                    ELSE NewCache(CustomMaxSize, CustomTtlMs)]
    /\ calls = [c \in CallIds |-> IdleCall]
    /\ nCall = 0

ClientNext ==
    \/ \E c \in CallIds, u \in QueryUrls, m \in FetchMethods, useCache \in BOOLEAN,
          credentialCache \in {"none", "custom"} :
            StartCall(c, u, m, useCache, credentialCache)
    \/ \E c \in CallIds, r \in ProofResponses : CachedResponse(c, r)
    \/ \E c \in CallIds, r \in PricedResponses, w \in Wallets, cap \in Caps,
          d \in DecodeOutcomes : BareResponse(c, r, w, cap, d)
    \/ \E c \in CallIds, p \in PayOutcomes, onPayment \in BOOLEAN,
          callbackThrows \in BOOLEAN : PayResult(c, p, onPayment, callbackThrows)
    \/ \E c \in CallIds, r \in ProofResponses : ReplayResponse(c, r)
    \/ \E c \in CallIds : ReleaseCall(c)
    \/ ClientTick
    \/ \E i \in CacheIds : CleanupTimer(i)

SpecClient == ClientInit /\ [][ClientNext]_vars

\* the exchange or the wallet call that call c waits for completes
Completes(c) ==
    \/ \E r \in ProofResponses : CachedResponse(c, r)
    \/ \E r \in PricedResponses, w \in Wallets, cap \in Caps, d \in DecodeOutcomes :
            BareResponse(c, r, w, cap, d)
    \/ \E p \in PayOutcomes, onPayment \in BOOLEAN, callbackThrows \in BOOLEAN :
            PayResult(c, p, onPayment, callbackThrows)
    \/ \E r \in ProofResponses : ReplayResponse(c, r)

\* the calls of a caller that passes its own cache, or cache: false
OwnCacheNext ==
    \/ \E c \in CallIds, u \in QueryUrls, m \in FetchMethods,
          credentialCache \in {"none", "custom"} :
            StartCall(c, u, m, FALSE, credentialCache)
    \/ \E c \in CallIds : Completes(c)
    \/ \E c \in CallIds : ReleaseCall(c)
    \/ ClientTick
    \/ CleanupTimer("custom")

\* every fetch and every wallet call completes
SpecClientLive ==
    ClientInit /\ [][OwnCacheNext]_vars /\ \A c \in CallIds : WF_vars(Completes(c))

(***************************************************************************)
(* Calls of l402Fetch with cache: false, one after the other, against a    *)
(* server whose 402 may or may not state an amount in its body: every      *)
(* wallet, cap and answer of decodeInvoice.                                *)
(***************************************************************************)
CapNext ==
    \/ \E c \in CallIds, u \in QueryUrls, m \in FetchMethods :
            StartCall(c, u, m, FALSE, "none")
    \/ \E c \in CallIds, r \in Responses, w \in Wallets, cap \in Caps,
          d \in DecodeOutcomes : BareResponse(c, r, w, cap, d)
    \/ \E c \in CallIds, p \in PayOutcomes, onPayment \in BOOLEAN,
          callbackThrows \in BOOLEAN : PayResult(c, p, onPayment, callbackThrows)
    \/ \E c \in CallIds, r \in ProofResponses : ReplayResponse(c, r)
    \/ \E c \in CallIds : ReleaseCall(c)

SpecCap == ClientInit /\ [][CapNext]_vars

(***************************************************************************)
(* A client made by createL402Client(opts), with opts.cache false or not.  *)
(* The client that caches owns the cache "custom"; the one that does not   *)
(* has made no cache.  The global cache is there for whoever asks for it.  *)
(***************************************************************************)
\* client line 324: the cache of the client, or null
ClientCache == IF "custom" \in DOMAIN caches THEN "custom" ELSE "none"

\* client lines 328-335: configuredL402Fetch(url, fetchOpts); the caller may
\* pass cache: false in fetchOpts
ConfiguredCall(c, url, m, useCache) == StartCall(c, url, m, useCache, ClientCache)

FactoryInit ==
    /\ now = 0
    /\ nTick = 0
    /\ gateCfg = [amountSats |-> 1, expirySeconds |-> DefaultExpirySeconds]
    /\ pendingHashes = <<>>
    /\ reqs = [s \in Slots |-> IdleReq]
    /\ nReq = 0
    /\ \E cacheOption \in BOOLEAN :
          caches = [i \in IF cacheOption THEN CacheIds ELSE {"global"} |->
                       IF i = "global" THEN NewCache(DefaultMaxSize, DefaultTtlMs)
                       ELSE CredentialCacheOf([maxSize |-> 0, defaultTtlMs |-> 0])]
    /\ calls = [c \in CallIds |-> IdleCall]
    /\ nCall = 0

FactoryNext ==
    \/ \E c \in CallIds, u \in QueryUrls, m \in FetchMethods, useCache \in BOOLEAN :
            ConfiguredCall(c, u, m, useCache)
    \/ \E c \in CallIds : Completes(c)
    \/ \E c \in CallIds : ReleaseCall(c)
    \/ ClientTick
    \/ \E i \in DOMAIN caches : CleanupTimer(i)

SpecFactory == FactoryInit /\ [][FactoryNext]_vars

(***************************************************************************)
(* Calls of l402Fetch that share the global cache: two callers, URLs of     *)
(* two origins and two paths, with and without a query string, and the     *)
(* methods in either case.  The wallet pays every challenge; there is no   *)
(* cap and no callback.                                                    *)
(***************************************************************************)
Callers == {1, 2}

ScopeMethods == {o.method : o \in FetchOptions}

\* the server asks for a payment when there is no proof, takes the proof of
\* a payment, and takes or refuses a proof that comes from the cache
Challenged == CHOOSE r \in ProofResponses : r.status = 402
Served == CHOOSE r \in ProofResponses : r.status = 200
Refused == CHOOSE r \in ProofResponses : r.status = 401

ScopeInit ==
    /\ now = 0
    /\ nTick = 0
    /\ gateCfg = [amountSats |-> 1, expirySeconds |-> DefaultExpirySeconds]
    /\ pendingHashes = <<>>
    /\ reqs = [s \in Slots |-> IdleReq]
    /\ nReq = 0
    /\ caches = [i \in CacheIds |->
                    IF i = "global" THEN NewCache(DefaultMaxSize, DefaultTtlMs)
                    ELSE NewCache(CustomMaxSize, CustomTtlMs)]
    /\ calls = [c \in Callers |-> IdleCall]
    /\ nCall = 0

ScopeNext ==
    \/ \E c \in Callers, u \in Urls, m \in ScopeMethods :
            StartCall(c, u, m, TRUE, "none")
    \/ \E c \in Callers, r \in {Served, Refused} : CachedResponse(c, r)
    \/ \E c \in Callers :
            BareResponse(c, Challenged, "plain", [set |-> FALSE, sats |-> 0], NoAmount)
    \/ \E c \in Callers :
            PayResult(c, [kind |-> "resolved", preimage |-> KnownPreimage], FALSE, FALSE)
    \/ \E c \in Callers : ReplayResponse(c, Served)
    \/ \E c \in Callers : ReleaseCall(c)
    \/ ClientTick
    \/ CleanupTimer("global")

SpecScope == ScopeInit /\ [][ScopeNext]_vars

(***************************************************************************)
(* Two callers at once on one resource, with the global cache empty or     *)
(* holding the credential of an earlier call; the wallet pays every        *)
(* challenge, each time with another preimage.                             *)
(***************************************************************************)
\* the credential that an earlier call has paid for and stored
EarlierCredential ==
    [macaroon |-> parseWwwAuthenticate(KnownChallenge).macaroon,
     preimage |-> KnownPreimage, expiresAt |-> FetchTtlMs]

RacePreimages == {KnownPreimage, MixedPreimage}

RaceInit ==
    /\ now = 0
    /\ nTick = 0
    /\ gateCfg = [amountSats |-> 1, expirySeconds |-> DefaultExpirySeconds]
    /\ pendingHashes = <<>>
    /\ reqs = [s \in Slots |-> IdleReq]
    /\ nReq = 0
    /\ \E held \in BOOLEAN :
          caches = [i \in CacheIds |->
                       IF i = "global" /\ held
                       THEN CacheSet(NewCache(DefaultMaxSize, DefaultTtlMs),
                                     UrlOf("https://h/a"), EarlierCredential, GetMethod)
                       ELSE IF i = "global" THEN NewCache(DefaultMaxSize, DefaultTtlMs)
                       ELSE NewCache(CustomMaxSize, CustomTtlMs)]
    /\ calls = [c \in Callers |-> IdleCall]
    /\ nCall = 0

RaceNext ==
    \/ \E c \in Callers, u \in QueryUrls, m \in FetchMethods :
            StartCall(c, u, m, TRUE, "none")
    \/ \E c \in Callers, r \in {Served, Refused} : CachedResponse(c, r)
    \/ \E c \in Callers :
            BareResponse(c, Challenged, "plain", [set |-> FALSE, sats |-> 0], NoAmount)
    \/ \E c \in Callers, p \in RacePreimages :
            PayResult(c, [kind |-> "resolved", preimage |-> p], FALSE, FALSE)
    \/ \E c \in Callers, r \in ProofResponses : ReplayResponse(c, r)
    \/ \E c \in Callers : ReleaseCall(c)
    \/ ClientTick
    \/ CleanupTimer("global")

SpecRace == RaceInit /\ [][RaceNext]_vars

(***************************************************************************)
(* A CredentialCache under the calls of its owner: set, get, invalidate,   *)
(* clear, cleanup and close, with the interval timer and the clock.  In    *)
(* this specification caches holds the one cache, and calls holds the last *)
(* call with its result and the run of calls of set since the cache was    *)
(* last empty.                                                             *)
(***************************************************************************)
TheCache == "custom"

\* the url and method arguments of the calls; the method is left out, or "GET"
CacheApiTargets ==
    { [url |-> [href |-> "https://h/a?q=1", origin |-> "https://h", pathname |-> "/a"],
       method |-> <<>>],
      [url |-> [href |-> "https://h/a?q=1", origin |-> "https://h", pathname |-> "/a"],
       method |-> GetMethod],
      [url |-> [href |-> "https://h/b", origin |-> "https://h", pathname |-> "/b"],
       method |-> <<>>] }

CacheApiCredentials ==
    { [macaroon |-> KnownHash, preimage |-> KnownPreimage],
      [macaroon |-> MixedHash, preimage |-> MixedPreimage] }

\* credential.expiresAt: left out, a time in the past, the present time
ExpiresAtArgs == {0, 1, now}

\* the url of a call that takes none
NoUrl == [href |-> "", origin |-> "", pathname |-> ""]

NoApiCall ==
    [op |-> "none", url |-> NoUrl, method |-> <<>>, expiresAt |-> 0, at |-> 0,
     sizeBefore |-> 0, found |-> FALSE, macaroon |-> <<>>, preimage |-> <<>>]

\* the call just made, on the cache as it was
ApiCall(op, url, method) ==
    [NoApiCall EXCEPT !.op = op, !.url = url, !.method = method, !.at = now,
                      !.sizeBefore = Len(caches[TheCache].entries)]

NoRun == [clean |-> TRUE, sets |-> <<>>]

\* the run after a call that left the cache as after: the calls of set, each
\* under a new key and without expiresAt, made since the cache was empty
RunAfter(call, after) ==
    IF after.entries = <<>> THEN NoRun
    ELSE IF call.op = "get" /\ after = caches[TheCache] THEN calls.run
    ELSE IF /\ call.op = "set"
            /\ call.expiresAt = 0
            /\ calls.run.clean
            /\ \A i \in 1..Len(calls.run.sets) :
                  CacheKey(calls.run.sets[i].url, calls.run.sets[i].method)
                      # CacheKey(call.url, call.method)
    THEN [calls.run EXCEPT !.sets = Append(@, call)]
    ELSE [clean |-> FALSE, sets |-> <<>>]

\* the owner made the call, which left the cache as after
Called(call, after) ==
    /\ nCall < MaxCacheOps
    /\ nCall' = nCall + 1
    /\ caches' = [caches EXCEPT ![TheCache] = after]
    /\ calls' = [last |-> call, run |-> RunAfter(call, after)]
    /\ UNCHANGED <<now, gateVars, nTick>>

ApiSet(url, credential, expiresAt, method) ==
    Called([ApiCall("set", url, method) EXCEPT
                !.expiresAt = expiresAt, !.macaroon = credential.macaroon,
                !.preimage = credential.preimage],
           CacheSet(caches[TheCache], url,
                    [macaroon |-> credential.macaroon,
                     preimage |-> credential.preimage, expiresAt |-> expiresAt],
                    method))

ApiGet(url, method) ==
    LET got == CacheGet(caches[TheCache], url, method)
    IN  Called([ApiCall("get", url, method) EXCEPT
                    !.found = got.found, !.macaroon = got.macaroon,
                    !.preimage = got.preimage],
               CacheAfterGet(caches[TheCache], url, method))

ApiInvalidate(url, method) ==
    Called(ApiCall("invalidate", url, method),
           CacheInvalidate(caches[TheCache], url, method))

ApiClear == Called(ApiCall("clear", NoUrl, <<>>), CacheClear(caches[TheCache]))

ApiCleanup == Called(ApiCall("cleanup", NoUrl, <<>>), CacheCleanup(caches[TheCache]))

ApiClose == Called(ApiCall("close", NoUrl, <<>>), CacheClose(caches[TheCache]))

\* Date.now() advances by a millisecond
CacheTick ==
    /\ nTick < MaxCacheTicks
    /\ nTick' = nTick + 1
    /\ now' = now + 1
    /\ UNCHANGED <<gateVars, clientVars>>

CacheInit ==
    /\ now = 2
    /\ nTick = 0
    /\ gateCfg = [amountSats |-> 1, expirySeconds |-> DefaultExpirySeconds]
    /\ pendingHashes = <<>>
    /\ reqs = [s \in Slots |-> IdleReq]
    /\ nReq = 0
    /\ \E maxSize \in 0..MaxCacheSize :
          caches = [i \in {TheCache} |->
                       CredentialCacheOf([maxSize |-> maxSize, defaultTtlMs |-> 0])]
    /\ calls = [last |-> NoApiCall, run |-> NoRun]
    /\ nCall = 0

CacheNext ==
    \/ \E t \in CacheApiTargets, cr \in CacheApiCredentials, e \in ExpiresAtArgs :
            ApiSet(t.url, cr, e, t.method)
    \/ \E t \in CacheApiTargets : ApiGet(t.url, t.method)
    \/ \E t \in CacheApiTargets : ApiInvalidate(t.url, t.method)
    \/ ApiClear
    \/ ApiCleanup
    \/ ApiClose
    \/ CleanupTimer(TheCache)
    \/ CacheTick

SpecCache == CacheInit /\ [][CacheNext]_vars

\* the timer of setInterval (cache line 17) goes off again and again while
\* the process runs, so a sweep that would remove something is not put off
\* for ever
SpecCacheLive == CacheInit /\ [][CacheNext]_vars /\ WF_vars(CleanupTimer(TheCache))

(***************************************************************************)
(* The codecs and the verifier under calls with chosen arguments.  In this *)
(* specification calls holds the last call: its arguments and its result.  *)
(***************************************************************************)
CodecBytes == {0, 1, 171, 255}

\* the byte strings of up to MaxBytes bytes
ByteStrings == UNION {[1..n -> CodecBytes] : n \in 0..MaxBytes}

\* preimage arguments that are not the hex of a byte string
OddSecrets ==
    { <<"z", "z">>, <<"0", "1", "2">>, <<"0", "1", "z", "z">>, <<"0">>,
      <<"0", "g">>, <<" ", "0", "1">> }

\* the parts authorization headers are put together from
AuthPads == { <<>>, <<" ">> }
AuthPrefixes == { L402Upper, L402Lower, <<"L", "4", "0", "2">>,
                  <<"B", "e", "a", "r", "e", "r", " ">>, <<>> }
AuthLefts == { <<>>, <<"a", "b">>, <<"A", "B", "1", "2">>, <<"0", "g">>, <<"a", " ">> }
AuthSeparators == { <<>>, Colon }
AuthRights == { <<>>, <<"c", "d">>, <<"C", "D", "0">>, <<"0", "g">>, <<"c", ":", "d">> }

\* invoice and macaroon arguments of the challenge, none with a quote in it
ChallengeArgs ==
    { <<>>, <<"p", "1">>, <<"l", "n", "b", "c", "1">>, <<"a", ",", " ", "b">>,
      <<"m", "a", "c", "a", "r", "o", "o", "n", "=">>,
      <<"x", "=", "I", "n", "v", "o", "i", "c", "e", "=">>, KnownHash }

\* verifyPreimage(preimage, paymentHash) was called
CallVerify(preimage, paymentHash) ==
    /\ calls.fn = "none"
    /\ calls' = [fn |-> "verifyPreimage", preimage |-> preimage,
                 paymentHash |-> paymentHash,
                 result |-> verifyPreimage(preimage, paymentHash)]
    /\ UNCHANGED <<now, gateVars, caches, nCall, nTick>>

\* parseAuthHeader was called with the header put together from the parts
CallParseAuth(lead, prefix, left, sep, right, trail) ==
    /\ calls.fn = "none"
    /\ sep = <<>> => \A i \in 1..Len(right) : right[i] # ":"
    /\ calls' = [fn |-> "parseAuthHeader", lead |-> lead, prefix |-> prefix,
                 left |-> left, sep |-> sep, right |-> right, trail |-> trail,
                 result |-> parseAuthHeader(lead \o prefix \o left \o sep
                                                \o right \o trail)]
    /\ UNCHANGED <<now, gateVars, caches, nCall, nTick>>

\* parseWwwAuthenticate(buildWwwAuthenticateHeader(invoice, macaroon)) was called
CallRoundTrip(invoice, macaroon) ==
    /\ calls.fn = "none"
    /\ calls' = [fn |-> "roundTrip", invoice |-> invoice, macaroon |-> macaroon,
                 result |-> parseWwwAuthenticate(
                                buildWwwAuthenticateHeader(invoice, macaroon))]
    /\ UNCHANGED <<now, gateVars, caches, nCall, nTick>>

CodecInit ==
    /\ now = 0
    /\ nTick = 0
    /\ gateCfg = [amountSats |-> 1, expirySeconds |-> DefaultExpirySeconds]
    /\ pendingHashes = <<>>
    /\ reqs = [s \in Slots |-> IdleReq]
    /\ nReq = 0
    /\ caches = <<>>
    /\ calls = [fn |-> "none"]
    /\ nCall = 0

CodecNext ==
    \/ \E s \in ByteStrings, t \in ByteStrings, upper \in BOOLEAN :
            CallVerify(HexEncode(s),
                       IF upper THEN ToUpperCase(Sha256Hex(t)) ELSE Sha256Hex(t))
    \/ \E secret \in OddSecrets, t \in ByteStrings : CallVerify(secret, Sha256Hex(t))
    \/ \E lead \in AuthPads, prefix \in AuthPrefixes, left \in AuthLefts,
          sep \in AuthSeparators, right \in AuthRights, trail \in AuthPads :
            CallParseAuth(lead, prefix, left, sep, right, trail)
    \/ \E invoice \in ChallengeArgs, macaroon \in ChallengeArgs :
            CallRoundTrip(invoice, macaroon)

SpecCodec == CodecInit /\ [][CodecNext]_vars

(***************************************************************************)
(* The claims about the server gate, checked under SpecGate.               *)
(***************************************************************************)
\* the request in slot s presented a proof that verifies
PresentedValidProof(s) ==
    LET parsed == parseAuthHeader(reqs[s].header)
    IN  parsed.ok /\ verifyPreimage(parsed.preimage, parsed.macaroon)

Admitted(s) == reqs[s].pc = "done" /\ reqs[s].nextCalls > 0

\* the step in which slot s is admitted
AdmitStep(s) == reqs[s].pc = "idle" /\ reqs'[s].pc = "done"

\* what the admit path leaves on the request, but for req.l402
AdmitFrame(s) ==
    /\ reqs[s].pc = "done"
    /\ reqs[s].nextCalls = 1
    /\ reqs[s].l402.set
    /\ reqs[s].l402.amountSats = gateCfg.amountSats
    /\ reqs[s].statusCode = 0
    /\ reqs[s].ended = 0
    /\ reqs[s].wwwAuth = <<>>
    /\ reqs[s].invoiceCalls = 0

\* C1, as claimed: a request whose proof verifies is passed to next() once,
\* with req.l402 = {paymentHash = the fingerprint of the proof, preimage = its
\* secret, amountSats = the configured price}, no status written, no invoice
\* asked for.
C1_AdmitAsPresented ==
    \A s \in Slots :
        (reqs[s].pc # "idle" /\ PresentedValidProof(s)) =>
            /\ AdmitFrame(s)
            /\ reqs[s].l402.paymentHash = parseAuthHeader(reqs[s].header).macaroon
            /\ reqs[s].l402.preimage = parseAuthHeader(reqs[s].header).preimage

\* C1, amended: a request whose proof verifies is passed to next() once, with
\* req.l402 = {paymentHash = the fingerprint in lower case, preimage = the
\* secret in lower case, amountSats = the configured price}; no status is
\* written, createInvoice is not called, and the step leaves pendingHashes as
\* it was.
C1_AdmitPath ==
    /\ [](\A s \in Slots :
            (reqs[s].pc # "idle" /\ PresentedValidProof(s)) =>
                /\ AdmitFrame(s)
                /\ reqs[s].l402.paymentHash
                       = ToLowerCase(parseAuthHeader(reqs[s].header).macaroon)
                /\ reqs[s].l402.preimage
                       = ToLowerCase(parseAuthHeader(reqs[s].header).preimage))
    /\ [][\A s \in Slots : AdmitStep(s) => pendingHashes' = pendingHashes]_vars

\* a proof written in upper case was admitted while an obligation was pending
C1_Witness ==
    \E s \in Slots :
        /\ Admitted(s)
        /\ PresentedValidProof(s)
        /\ reqs[s].l402.paymentHash # parseAuthHeader(reqs[s].header).macaroon
        /\ DOMAIN pendingHashes # {}

\* C2: a request with no proof, a malformed proof or a proof that fails
\* verification never reaches next(), and once createInvoice has resolved with
\* (invoice, paymentHash) its response is 402 with WWW-Authenticate equal to
\* the encoded challenge of that pair.
C2_ChallengePath ==
    \A s \in Slots :
        (reqs[s].pc # "idle" /\ ~PresentedValidProof(s)) =>
            /\ reqs[s].nextCalls = 0
            /\ ~reqs[s].l402.set
            /\ reqs[s].invoiceResult.kind = "resolved" =>
                /\ reqs[s].statusCode = 402
                /\ reqs[s].wwwAuth =
                       buildWwwAuthenticateHeader(reqs[s].invoiceResult.invoice,
                                                  reqs[s].invoiceResult.paymentHash)

\* one request without a header and one whose proof fails verification were
\* both challenged
C2_Witness ==
    \E s, t \in Slots :
        /\ reqs[s].statusCode = 402 /\ reqs[s].header = <<>>
        /\ reqs[t].statusCode = 402
        /\ parseAuthHeader(reqs[t].header).ok
        /\ ~PresentedValidProof(t)

\* C3: the decision to admit depends on the request alone: two requests with
\* the same header are decided alike whatever pendingHashes held when each came
\* in, and a proof that verifies is admitted also when its fingerprint was
\* never recorded.
C3_StatelessAdmission ==
    /\ \A s, t \in Slots :
          (reqs[s].pc # "idle" /\ reqs[t].pc # "idle"
              /\ reqs[s].header = reqs[t].header) =>
                  (Admitted(s) <=> Admitted(t))
    /\ \A s \in Slots :
          (reqs[s].pc # "idle" /\ PresentedValidProof(s)) => Admitted(s)

\* the same proof was admitted twice, once with its fingerprint pending and
\* once with nothing recorded
C3_Witness ==
    \E s, t \in Slots :
        /\ Admitted(s) /\ Admitted(t)
        /\ reqs[s].header = reqs[t].header
        /\ reqs[s].tableSeen = {}
        /\ reqs[s].l402.paymentHash \in reqs[t].tableSeen

\* the step in which the createInvoice call of slot s is rejected
RejectStep(s) ==
    reqs[s].pc = "awaitInvoice" /\ reqs'[s].invoiceResult.kind = "rejected"

\* C10: when createInvoice fails the response is 500 without a challenge,
\* next() is not called, createInvoice was called once, and the step adds
\* nothing to pendingHashes.
C10_InvoiceFailure ==
    /\ [](\A s \in Slots :
            /\ reqs[s].invoiceCalls <= 1
            /\ reqs[s].invoiceResult.kind = "rejected" =>
                /\ reqs[s].pc = "done"
                /\ reqs[s].statusCode = 500
                /\ reqs[s].wwwAuth = <<>>
                /\ reqs[s].nextCalls = 0
                /\ reqs[s].invoiceCalls = 1)
    /\ [][\A s \in Slots : RejectStep(s) => pendingHashes' = pendingHashes]_vars

\* a createInvoice call was rejected while another obligation was pending
C10_Witness ==
    \E s \in Slots :
        /\ reqs[s].invoiceResult.kind = "rejected"
        /\ reqs[s].statusCode = 500
        /\ DOMAIN pendingHashes # {}

\* the outcomes the request in slot s shows: next() called, a 402 with a
\* challenge, a 500
OutcomesOf(s) ==
    {o \in {"admitted", "challenged", "failed"} :
        \/ o = "admitted" /\ reqs[s].nextCalls > 0
        \/ o = "challenged" /\ reqs[s].statusCode = 402 /\ reqs[s].wwwAuth # <<>>
        \/ o = "failed" /\ reqs[s].statusCode = 500}

\* C13: every handled request ends, once its wallet call (if any) is over, in
\* exactly one of: next() called, status 402 with a challenge, status 500;
\* before that it shows none, and what it shows does not change afterwards.
C13_ThreeOutcomes ==
    /\ [](\A s \in Slots :
            /\ reqs[s].pc = "done" => Cardinality(OutcomesOf(s)) = 1
            /\ reqs[s].pc # "done" => OutcomesOf(s) = {}
            /\ reqs[s].statusCode \in {0, 402, 500}
            /\ reqs[s].nextCalls <= 1
            /\ reqs[s].ended <= 1
            /\ reqs[s].nextCalls > 0 => reqs[s].ended = 0)
    /\ [][\A s \in Slots :
            (reqs[s].pc = "done" /\ reqs'[s].pc = "done") => reqs'[s] = reqs[s]]_vars

\* the three outcomes side by side: one slot admitted while the other was
\* challenged, and then answered with 500
C13_Witness ==
    \E s, t \in Slots :
        /\ OutcomesOf(s) = {"admitted"}
        /\ OutcomesOf(t) = {"failed"}
        /\ DOMAIN pendingHashes # {}
        /\ nReq = 3

\* what the caller sees of the response in slot s
ResponseOf(s) ==
    [statusCode |-> reqs[s].statusCode, wwwAuth |-> reqs[s].wwwAuth,
     contentType |-> reqs[s].contentType, body |-> reqs[s].body,
     ended |-> reqs[s].ended]

\* C15: for one gate and one wallet result, the response to a request whose
\* proof parses but fails verification, or does not parse, is the same in
\* status, headers and body as the response to a request without a proof.
C15_NoOracle ==
    \A s, t \in Slots :
        ( /\ reqs[s].pc = "done" /\ reqs[t].pc = "done"
          /\ reqs[s].header = <<>>
          /\ ~PresentedValidProof(t)
          /\ reqs[s].invoiceResult = reqs[t].invoiceResult ) =>
              ResponseOf(s) = ResponseOf(t)

\* a request without a proof and one whose proof fails verification were
\* challenged with the same invoice
C15_Witness ==
    \E s, t \in Slots :
        /\ reqs[s].pc = "done" /\ reqs[t].pc = "done"
        /\ reqs[s].header = <<>>
        /\ parseAuthHeader(reqs[t].header).ok
        /\ ~PresentedValidProof(t)
        /\ reqs[s].invoiceResult = reqs[t].invoiceResult
        /\ reqs[s].statusCode = 402

\* the step in which slot s takes in a request with the header of the request
\* admitted in slot t
ReplayStep(s, t) ==
    /\ s # t
    /\ Admitted(t)
    /\ reqs[s].pc = "idle"
    /\ reqs'[s].pc # "idle"
    /\ reqs'[s].header = reqs[t].header

\* C16: a proof that the gate admitted is admitted again whenever it is
\* presented, whatever requests and challenges came in between; the admission
\* leaves no record in the gate.
C16_ReplayAccepted ==
    [][\A s, t \in Slots :
          ReplayStep(s, t) =>
              /\ reqs'[s].pc = "done"
              /\ reqs'[s].nextCalls = 1
              /\ reqs'[s].statusCode = 0
              /\ pendingHashes' = pendingHashes]_vars

\* a proof admitted with nothing pending was admitted again after a challenge
\* was issued to another request and the challenge's expiry had passed
C16_Witness ==
    \E s, t \in Slots :
        /\ s # t
        /\ Admitted(s) /\ Admitted(t)
        /\ reqs[s].header = reqs[t].header
        /\ reqs[s].tableSeen = {}
        /\ reqs[t].tableSeen # {}
        /\ nTick = 1
        /\ nReq = 3

(***************************************************************************)
(* The claims about the client orchestrator, checked under SpecClient.     *)
(***************************************************************************)
\* the places in the log of call c of the fetches of one kind
Fetches(c, kind) == {i \in 1..Len(calls[c].log) : calls[c].log[i].kind = kind}

\* the fetch at place i of call c has been answered
IsAnswered(c, i) == calls[c].log[i].resp.status # 0

\* C4: a call invokes payInvoice at most once and replays at most once; the
\* response to the replay, 402 or not, is the result of the call and its
\* last fetch.
C4_PaysAtMostOnce ==
    \A c \in CallIds :
        /\ calls[c].payCalls <= 1
        /\ Cardinality(Fetches(c, "replay")) <= 1
        /\ \A i \in Fetches(c, "replay") :
              /\ i = Len(calls[c].log)
              /\ calls[c].payCalls = 1
              /\ IsAnswered(c, i) =>
                    /\ calls[c].pc = "done"
                    /\ calls[c].result = Returned(calls[c].log[i].resp, i)

\* a replay was answered with 402 and that 402 is the result
C4_Witness ==
    \E c \in CallIds :
        /\ calls[c].pc = "done"
        /\ Fetches(c, "replay") # {}
        /\ calls[c].result.kind = "response"
        /\ calls[c].result.resp.status = 402
        /\ calls[c].log[Len(calls[c].log)].kind = "replay"

\* C5: with a cap configured and an amount determined that is greater than
\* the cap, the call raises the cap error, without a payInvoice call, a cache
\* write or a replay; the cap error is raised in no other case.
C5_CapFailClosed ==
    \A c \in CallIds :
        /\ (calls[c].cap.set /\ calls[c].amount.kind = "number"
                /\ calls[c].amount.sats > calls[c].cap.sats) =>
              /\ calls[c].pc = "done"
              /\ calls[c].result = Raised("CapExceeded")
              /\ calls[c].payCalls = 0
              /\ calls[c].cacheSets = 0
              /\ Fetches(c, "replay") = {}
        /\ calls[c].result.error = "CapExceeded" =>
              /\ calls[c].cap.set
              /\ calls[c].amount.kind = "number"
              /\ calls[c].amount.sats > calls[c].cap.sats
              /\ calls[c].payCalls = 0

\* a call with cap 30 raised the cap error on an amount of 50
C5_Witness ==
    \E c \in CallIds :
        /\ calls[c].result = Raised("CapExceeded")
        /\ calls[c].cap.sats = 30
        /\ calls[c].amount.sats = 50
        /\ calls[c].cache # "none"

\* the answered bare fetch of call c
BareFetch(c) == CHOOSE i \in Fetches(c, "bare") : TRUE

\* what parseWwwAuthenticate makes of the WWW-Authenticate header of each
\* response, and of no header
ParsedHeader ==
    [w \in {r.www : r \in Responses} \cup {<<>>} |-> parseWwwAuthenticate(w)]

\* C6: payInvoice is invoked only after a bare fetch answered with 402, with a
\* wallet, on a challenge that decodes; a 402 without a wallet or without a
\* challenge that decodes is returned as it came, and nothing is cached.
C6_AutoPayOptIn ==
    \A c \in CallIds :
        /\ calls[c].payCalls > 0 =>
              /\ Fetches(c, "bare") # {}
              /\ calls[c].log[BareFetch(c)].resp.status = 402
              /\ calls[c].wallet \in {"plain", "decoding"}
              /\ ParsedHeader[calls[c].log[BareFetch(c)].resp.www].ok
        /\ \A i \in Fetches(c, "bare") :
              (/\ calls[c].log[i].resp.status = 402
               /\ \/ calls[c].wallet = "none"
                  \/ ~ParsedHeader[calls[c].log[i].resp.www].ok) =>
                    /\ calls[c].pc = "done"
                    /\ calls[c].result = Returned(calls[c].log[i].resp, i)
                    /\ calls[c].payCalls = 0
                    /\ calls[c].cacheSets = 0

\* a 402 whose challenge does not decode came back to a caller with a wallet
\* and a cache
C6_Witness ==
    \E c \in CallIds :
        /\ calls[c].pc = "done"
        /\ calls[c].wallet = "decoding"
        /\ calls[c].cache # "none"
        /\ calls[c].result.kind = "response"
        /\ calls[c].result.resp.status = 402
        /\ ~parseWwwAuthenticate(calls[c].result.resp.www).ok

\* the step in which call c takes the answer to its bare fetch
BareAnswerStep(c) == calls[c].pc = "awaitBare" /\ calls'[c].pc # "awaitBare"

\* C7: a bare fetch answered with a status other than 402 ends the call: that
\* response is the result, no wallet call was made, no further fetch, nothing
\* written to the cache.
C7_FreeResource ==
    /\ [](\A c \in CallIds : \A i \in Fetches(c, "bare") :
            (IsAnswered(c, i) /\ calls[c].log[i].resp.status # 402) =>
                /\ calls[c].pc = "done"
                /\ calls[c].result = Returned(calls[c].log[i].resp, i)
                /\ i = Len(calls[c].log)
                /\ calls[c].payCalls = 0
                /\ calls[c].decodeCalls = 0
                /\ calls[c].onPaymentCalls = 0
                /\ calls[c].cacheSets = 0)
    /\ [][\A c \in CallIds :
            (BareAnswerStep(c) /\ calls'[c].result.kind = "response") =>
                caches' = caches]_vars

\* a bare fetch was answered 401 with a challenge in it, and that was returned
C7_Witness ==
    \E c \in CallIds :
        /\ calls[c].pc = "done"
        /\ calls[c].log[Len(calls[c].log)].kind = "bare"
        /\ calls[c].result.resp.status = 401
        /\ parseWwwAuthenticate(calls[c].result.resp.www).ok

\* the cache entry a call for (url, method) on cache inst would be served
EntryFor(inst, href, method) ==
    EntryOf(caches[inst].entries, CacheKey(UrlOf(href), method))

HoldsUnexpired(inst, href, method) ==
    /\ inst # "none"
    /\ HasKey(caches[inst].entries, CacheKey(UrlOf(href), method))
    /\ ~(now > EntryFor(inst, href, method).expiresAt)

\* the step in which call c starts
StartStep(c) == calls[c].pc = "idle" /\ calls'[c].pc # "idle"

\* the step in which call c takes the answer to its fetch with the cached
\* credential
CachedAnswerStep(c) == calls[c].pc = "awaitCached" /\ calls'[c].pc # "awaitCached"

\* C8: a call that finds an unexpired credential under its key fetches with
\* `L402 macaroon:preimage` of that credential; when that fetch is answered
\* with a status other than 401 and 402 it is the only fetch of the call,
\* payInvoice is not invoked, the response is the result, and the step leaves
\* the cache as it was.
C8_CachedReuse ==
    /\ [][\A c \in CallIds :
            (StartStep(c)
                /\ HoldsUnexpired(calls'[c].cache, calls'[c].url, calls'[c].method)) =>
                    /\ calls'[c].pc = "awaitCached"
                    /\ Len(calls'[c].log) = 1
                    /\ calls'[c].log[1].kind = "cached"
                    /\ calls'[c].log[1].auth =
                            L402Upper
                                \o EntryFor(calls'[c].cache, calls'[c].url,
                                            calls'[c].method).macaroon
                                \o <<":">>
                                \o EntryFor(calls'[c].cache, calls'[c].url,
                                            calls'[c].method).preimage
                    /\ calls'[c].log[1].resp = Pending
                    /\ caches' = caches]_vars
    /\ [](\A c \in CallIds : \A i \in Fetches(c, "cached") :
            /\ i = 1
            /\ (IsAnswered(c, i) /\ calls[c].log[i].resp.status \notin {401, 402}) =>
                  /\ calls[c].pc = "done"
                  /\ Len(calls[c].log) = 1
                  /\ calls[c].payCalls = 0
                  /\ calls[c].result = Returned(calls[c].log[i].resp, i))
    /\ [][\A c \in CallIds :
            (CachedAnswerStep(c) /\ calls'[c].log[1].resp.status \notin {401, 402}) =>
                caches' = caches]_vars

\* a call was served with the cached credential, which is still in the cache
C8_Witness ==
    \E c \in CallIds :
        /\ calls[c].pc = "done"
        /\ Len(calls[c].log) = 1
        /\ calls[c].log[1].kind = "cached"
        /\ calls[c].result.resp.status = 200
        /\ HoldsUnexpired(calls[c].cache, calls[c].url, calls[c].method)
        /\ calls[c].log[1].auth =
               AuthorizationValue(EntryFor(calls[c].cache, calls[c].url,
                                           calls[c].method).macaroon,
                                  EntryFor(calls[c].cache, calls[c].url,
                                           calls[c].method).preimage)

\* the call record right after a start that found nothing in the cache
AfterMiss(call) ==
    [IdleCall EXCEPT !.pc = "awaitBare", !.url = call.url, !.method = call.method,
                     !.cache = call.cache, !.fetchOpts = call.fetchOpts,
                     !.log = <<[kind |-> "bare", url |-> call.url,
                                method |-> call.fetchOpts.method,
                                body |-> call.fetchOpts.body,
                                headers |-> call.fetchOpts.headers,
                                auth |-> <<>>, resp |-> Pending]>>]

\* C9: when the fetch with the cached credential is answered 401 or 402, the
\* call removes the entry under its key and goes on with a bare fetch that
\* carries no proof, in the state of a call that found the cache empty.
C9_CachedRejected ==
    /\ [][\A c \in CallIds :
            (CachedAnswerStep(c) /\ calls'[c].log[1].resp.status \in {401, 402}) =>
                /\ ~HasKey(caches'[calls[c].cache].entries,
                           CacheKey(UrlOf(calls[c].url), calls[c].method))
                /\ Len(calls'[c].log) = 2
                /\ [calls'[c] EXCEPT !.log = Tail(@), !.cacheInvalidates = 0]
                       = AfterMiss(calls[c])]_vars
    /\ [](\A c \in CallIds : \A i \in Fetches(c, "cached") :
            (IsAnswered(c, i) /\ calls[c].log[i].resp.status \in {401, 402}) =>
                /\ Len(calls[c].log) >= 2
                /\ calls[c].log[2].kind = "bare"
                /\ calls[c].log[2].auth = <<>>
                /\ calls[c].cacheInvalidates = 1)

\* a cached credential was answered 401, and the call paid and replayed
C9_Witness ==
    \E c \in CallIds :
        /\ Len(calls[c].log) = 3
        /\ calls[c].log[1].kind = "cached"
        /\ calls[c].log[1].resp.status = 401
        /\ calls[c].log[3].kind = "replay"
        /\ calls[c].cacheSets = 1

\* the step in which the wallet's answer to the payInvoice call of c comes in
\* without a preimage: the call failed, or its result holds none
UnsettledStep(c) ==
    /\ calls[c].pc = "awaitPay"
    /\ calls'[c].pc # "awaitPay"
    /\ calls'[c].preimage = <<>>

SettlementErrors == {"PayFailed", "NoPreimage"}

\* C11: when payInvoice fails or resolves without a preimage the call raises
\* a settlement error; that call writes no credential to the cache, does not
\* invoke onPayment and dispatches no replay.
C11_SettlementFailure ==
    /\ [](\A c \in CallIds :
            calls[c].result.error \in SettlementErrors =>
                /\ calls[c].pc = "done"
                /\ calls[c].result.kind = "error"
                /\ calls[c].payCalls = 1
                /\ calls[c].cacheSets = 0
                /\ calls[c].onPaymentCalls = 0
                /\ Fetches(c, "replay") = {})
    /\ [][\A c \in CallIds :
            UnsettledStep(c) =>
                /\ calls'[c].result.kind = "error"
                /\ calls'[c].result.error \in SettlementErrors
                /\ calls'[c].log = calls[c].log
                /\ caches' = caches]_vars

\* a call that writes to a cache got a payInvoice result without a preimage
C11_Witness ==
    \E c \in CallIds :
        /\ calls[c].result = Raised("NoPreimage")
        /\ calls[c].cache # "none"
        /\ calls[c].payCalls = 1
        /\ caches[calls[c].cache].entries = <<>>

\* C12: every credential held by a cache that l402Fetch writes to satisfies
\* the proof verifier: verifyPreimage(preimage, macaroon) is true of every
\* entry, in every reachable state.
C12_CachedVerifies ==
    \A inst \in DOMAIN caches :
        \A i \in 1..Len(caches[inst].entries) :
            verifyPreimage(caches[inst].entries[i].preimage,
                           caches[inst].entries[i].macaroon)

\* the errors the orchestrator is said to raise: the wallet call failed, the
\* wallet gave no preimage, the amount is above the cap
OrchestratorErrors == {"PayFailed", "NoPreimage", "CapExceeded"}

\* C14: a call either returns a response or raises one of three errors
\* (capability failure, settlement failure, cap exceeded); no other error
\* leaves l402Fetch.
C14_ThreeErrors ==
    \A c \in CallIds :
        calls[c].pc = "done" =>
            \/ calls[c].result.kind = "response"
            \/ /\ calls[c].result.kind = "error"
               /\ calls[c].result.error \in OrchestratorErrors

(***************************************************************************)
(* The claims about the credential cache, checked under SpecCache.         *)
(***************************************************************************)
\* C17: whatever calls of set, get, invalidate, clear, cleanup and close were
\* made, and whenever the timer ran, a cache holds at most maxSize entries.
C17_Capacity ==
    \A inst \in DOMAIN caches :
        Len(caches[inst].entries) <= caches[inst].maxSize

\* a closed cache of capacity 1 is full after a second key was set
C17_Witness ==
    /\ caches[TheCache].maxSize = 1
    /\ caches[TheCache].closed
    /\ Len(caches[TheCache].entries) = 1
    /\ calls.last.op = "set"
    /\ calls.last.sizeBefore = 1
    /\ caches[TheCache].entries[1].key = CacheKey(calls.last.url, calls.last.method)
    /\ nCall = 3

\* what get returns for the arguments of a call of the run
GetOf(call) == CacheGet(caches[TheCache], call.url, call.method)

\* the run is maxSize + 1 calls of set, under distinct keys and without
\* expiresAt, on an empty cache
OverfilledRun ==
    /\ calls.run.clean
    /\ Len(calls.run.sets) = caches[TheCache].maxSize + 1

\* C18: after maxSize + 1 entries were set under distinct keys, without
\* expiresAt, in an empty cache, one entry is gone: the first one set, for
\* which get returns null; get returns each of the other maxSize entries.
C18_EvictsFirst ==
    OverfilledRun =>
        /\ Len(caches[TheCache].entries) = caches[TheCache].maxSize
        /\ ~GetOf(calls.run.sets[1]).found
        /\ \A i \in 2..Len(calls.run.sets) :
              /\ GetOf(calls.run.sets[i]).found
              /\ GetOf(calls.run.sets[i]).macaroon = calls.run.sets[i].macaroon
              /\ GetOf(calls.run.sets[i]).preimage = calls.run.sets[i].preimage

\* a cache of capacity 2 took three entries, the clock moving meanwhile
C18_Witness ==
    /\ OverfilledRun
    /\ caches[TheCache].maxSize = 2
    /\ calls.last.op = "set"
    /\ nTick = 1
    /\ caches[TheCache].entries[1].storedAt # caches[TheCache].entries[2].storedAt

\* the step is a call of get
GetStep == nCall' = nCall + 1 /\ calls'.last.op = "get"

\* the entries of the cache under the key of the arguments of the call
StoredFor(call) ==
    SelectSeq(caches[TheCache].entries,
              LAMBDA e : e.key = CacheKey(call.url, call.method))

\* C19: get returns null when the expiresAt of the stored entry has passed,
\* and removes that entry, whether or not the cache is closed and whenever
\* cleanup last ran; for an entry whose expiresAt has not passed it returns
\* the entry's macaroon and preimage and leaves the cache as it is.
C19_GetHidesExpired ==
    /\ [](\A i \in 1..Len(caches[TheCache].entries) :
            caches[TheCache].entries[i].expiresAt # 0)
    /\ [][GetStep =>
            LET call == calls'.last
                stored == StoredFor(call)
            IN  IF stored = <<>>
                THEN ~call.found /\ caches' = caches
                ELSE IF now > stored[1].expiresAt
                THEN /\ ~call.found
                     /\ caches'[TheCache].entries =
                            SelectSeq(caches[TheCache].entries,
                                      LAMBDA e : e.key # stored[1].key)
                ELSE /\ call.found
                     /\ call.macaroon = stored[1].macaroon
                     /\ call.preimage = stored[1].preimage
                     /\ caches' = caches]_vars

\* a closed cache held one entry, which had expired; get returned
\* null and the entry is gone
C19_Witness ==
    /\ calls.last.op = "get"
    /\ ~calls.last.found
    /\ calls.last.sizeBefore = 1
    /\ caches[TheCache].entries = <<>>
    /\ caches[TheCache].closed
    /\ nTick = 1

\* the step is a call of the method op
ApiStep(op) == nCall' = nCall + 1 /\ calls'.last.op = op

\* what get returns, after the step, for the arguments of the step's call
GetAfter == CacheGet(caches'[TheCache], calls'.last.url, calls'.last.method)

\* C21: close() stops the timer and leaves the entries as they are; a second
\* close() changes nothing; after close, set, get and invalidate work as
\* before, and no entry goes but by a call.
C21_CloseStopsSweep ==
    /\ [][ApiStep("close") =>
            caches'[TheCache] = [caches[TheCache] EXCEPT !.closed = TRUE]]_vars
    /\ [][caches[TheCache].closed =>
            /\ caches'[TheCache].closed
            /\ caches'[TheCache].entries # caches[TheCache].entries =>
                  nCall' = nCall + 1
            /\ ApiStep("close") => caches' = caches
            /\ (ApiStep("set") /\ calls'.last.expiresAt # 1) =>
                  /\ GetAfter.found
                  /\ GetAfter.preimage = calls'.last.preimage
            /\ ApiStep("invalidate") => ~GetAfter.found]_vars

\* close() was called on a closed cache that holds an expired entry
C21_Witness ==
    /\ calls.last.op = "close"
    /\ calls.last.sizeBefore = 1
    /\ caches[TheCache].closed
    /\ Len(caches[TheCache].entries) = 1
    /\ Expired(caches[TheCache].entries[1])
    /\ nCall = 3
    /\ nTick = 1

\* C20: an entry set with an expiresAt that was already in the past, whatever
\* the past timestamp, is not returned by get and is removed by the next
\* cleanup().
C20_PastExpiry ==
    (calls.last.op = "set" /\ calls.last.expiresAt < calls.last.at) =>
        /\ ~CacheGet(caches[TheCache], calls.last.url, calls.last.method).found
        /\ ~HasKey(CacheCleanup(caches[TheCache]).entries,
                   CacheKey(calls.last.url, calls.last.method))

(***************************************************************************)
(* The claims about the codecs and the verifier, checked under SpecCodec.  *)
(***************************************************************************)
\* C23: for every invoice p and macaroon f without a quote character,
\* parseWwwAuthenticate(buildWwwAuthenticateHeader(p, f)) returns
\* {invoice: p, macaroon: f}.
C23_ChallengeRoundTrip ==
    calls.fn = "roundTrip" =>
        /\ calls.result.ok
        /\ calls.result.invoice = calls.invoice
        /\ calls.result.macaroon = calls.macaroon

\* the characters 0-9, a-f and A-F
HexCharacters == {HexDigits[i] : i \in 1..16} \cup {"A", "B", "C", "D", "E", "F"}

OnlyHexCharacters(s) == \A i \in 1..Len(s) : s[i] \in HexCharacters

\* the header of the call is `<prefix><left><sep><right>`, nothing around it
Unpadded == calls.lead = <<>> /\ calls.trail = <<>>

\* the header of the call is one the decoder is to reject: no L402 prefix, no
\* separator, or a half that is empty or not hex
Rejectable ==
    \/ calls.prefix \notin {L402Upper, L402Lower}
    \/ calls.sep = <<>>
    \/ calls.left = <<>> \/ calls.right = <<>>
    \/ ~OnlyHexCharacters(calls.left) \/ ~OnlyHexCharacters(calls.right)

C25_VerifierCorrect ==
    calls.fn = "verifyPreimage" =>
        \A s \in ByteStrings :
            calls.preimage = HexEncode(s) =>
                \A t \in ByteStrings :
                    calls.paymentHash \in {Sha256Hex(t), ToUpperCase(Sha256Hex(t))} =>
                        (calls.result <=> s = t)

\* the secret of two bytes was verified against its fingerprint in upper case
C25_Witness ==
    /\ calls.fn = "verifyPreimage"
    /\ calls.preimage = <<"a", "b", "0", "1">>
    /\ calls.paymentHash = ToUpperCase(Sha256Hex(<<171, 1>>))
    /\ calls.paymentHash # Sha256Hex(<<171, 1>>)
    /\ calls.result

\* C26: verifyPreimage raises for no arguments and returns false whenever the
\* secret is not well-formed hex: it holds a character that is no hex digit,
\* or its length is odd; whatever the fingerprint.
C26_VerifierTotal ==
    calls.fn = "verifyPreimage" =>
        /\ calls.result \in BOOLEAN
        /\ (~OnlyHexCharacters(calls.preimage) \/ Len(calls.preimage) % 2 = 1) =>
              ~calls.result

(***************************************************************************)
(* More claims about the client orchestrator, checked under SpecClient and *)
(* SpecCap.                                                                *)
(***************************************************************************)
\* the place in the log of call c of its bare fetch
BarePlace(c) == CHOOSE i \in Fetches(c, "bare") : TRUE

\* C29: the replay goes to the URL of the bare fetch, with the Authorization
\* header `L402 <macaroon of the challenge>:<preimage of payInvoice>` and
\* with the method, the body and the other headers of the bare fetch; the
\* options of the caller are not changed.
C29_ReplayRequest ==
    /\ [](\A c \in CallIds : \A i \in Fetches(c, "replay") :
            LET replay == calls[c].log[i]
                bare == calls[c].log[BarePlace(c)]
            IN  /\ replay.url = bare.url
                /\ replay.method = bare.method
                /\ replay.body = bare.body
                /\ replay.headers = bare.headers
                /\ replay.auth =
                       AuthorizationValue(parseWwwAuthenticate(bare.resp.www).macaroon,
                                          calls[c].preimage)
                /\ bare.auth = <<>>)
    /\ [][\A c \in CallIds :
            (calls[c].pc # "idle" /\ calls'[c].pc # "idle") =>
                /\ calls'[c].fetchOpts = calls[c].fetchOpts
                /\ calls'[c].url = calls[c].url]_vars

\* a post with a body was replayed with the proof
C29_Witness ==
    \E c \in CallIds :
        /\ Fetches(c, "replay") # {}
        /\ calls[c].pc = "done"
        /\ calls[c].log[Len(calls[c].log)].body = "payload"
        /\ calls[c].log[Len(calls[c].log)].method = <<"p", "o", "s", "t">>
        /\ calls[c].log[Len(calls[c].log)].url = "https://h/a?q=1"
        /\ calls[c].log[Len(calls[c].log)].auth =
               AuthorizationValue(KnownHash, MixedPreimage)

\* the step in which call c, which uses a cache, takes a preimage from
\* payInvoice and goes on
SettledStep(c) ==
    /\ calls[c].pc = "awaitPay"
    /\ calls'[c].pc = "awaitReplay"
    /\ calls[c].cache # "none"

\* a URL string that the key was made from
UrlOfKey(k) == CHOOSE u \in Urls : u.origin = k.origin /\ u.pathname = k.pathname

BodyAmount(c) == calls[c].log[BarePlace(c)].resp.bodyAmount

\* C27: with a cap configured, whenever the wallet has no decodeInvoice, or
\* the decode fails or yields no amount, the amountSats of the body of the
\* 402 response, if present, is the amount compared with the cap, and an
\* amount over the cap raises the cap error before any payment.
C27_OrderedFallback ==
    \A c \in CallIds :
        (calls[c].cap.set /\ BodyAmount(c) # 0) =>
            /\ calls[c].amount.kind = "number"
            /\ calls[c].wallet = "plain" => calls[c].amount.sats = BodyAmount(c)
            /\ calls[c].amount.sats > calls[c].cap.sats =>
                  /\ calls[c].result = Raised("CapExceeded")
                  /\ calls[c].payCalls = 0

\* C28: with a cap configured, when neither the decode nor the body of the
\* 402 response yields an amount, the call goes on to wallet.payInvoice and
\* raises no cap error, as a call without a cap does.
C28_UnknownAmountPays ==
    \A c \in CallIds :
        /\ (calls[c].cap.set /\ calls[c].amount.kind # "number" /\ BodyAmount(c) = 0) =>
              /\ calls[c].pc \in {"awaitPay", "awaitReplay", "done"}
              /\ calls[c].payCalls = 1
              /\ calls[c].result.error # "CapExceeded"
              /\ calls[c].challenge = ChallengeIn[calls[c].log[BarePlace(c)].resp]
        /\ (~calls[c].cap.set /\ calls[c].challenge # NullChallenge) =>
              /\ calls[c].pc \in {"awaitPay", "awaitReplay", "done"}
              /\ calls[c].payCalls = 1
              /\ calls[c].result.error # "CapExceeded"

\* a call with a cap whose wallet decoded no amount from the invoice, on a
\* 402 without an amount in its body, waits for payInvoice
C28_Witness ==
    \E c \in CallIds :
        /\ calls[c].cap.set
        /\ calls[c].wallet = "decoding"
        /\ calls[c].decodeCalls = 1
        /\ calls[c].amount.kind = "null"
        /\ BodyAmount(c) = 0
        /\ calls[c].pc = "awaitPay"
        /\ calls[c].payCalls = 1

(***************************************************************************)
(* The claim about the scope of a cached credential, checked under         *)
(* SpecScope.                                                              *)
(***************************************************************************)
\* the method that a call with the method option m uses
MethodOf(m) == ToUpperCase(IF m = <<>> THEN GetMethod ELSE m)

\* the URLs u and v have one origin and one path, and the method options m
\* and n are one method once upper-cased
SameScope(u, m, v, n) ==
    /\ u.origin = v.origin
    /\ u.pathname = v.pathname
    /\ MethodOf(m) = MethodOf(n)

\* caller c stores the credential it has paid for
StoreStep(c) ==
    /\ calls[c].pc = "awaitPay"
    /\ calls'[c].pc = "awaitReplay"
    /\ calls'[c].cacheSets = calls[c].cacheSets + 1

\* C22: once a call for URL U with method M has stored its credential, the
\* lookup of a call for URL V with method N finds that credential when V has
\* the origin and the path of U and N upper-cased is M upper-cased, and is
\* what it was before for every other V and N; and a call starts with a
\* cached credential exactly when the cache holds an unexpired one stored
\* for its origin, its path and its upper-cased method, whatever the query
\* strings.
C22_KeyScope ==
    /\ [][\A c \in Callers :
            StoreStep(c) =>
                \A v \in Urls, n \in ScopeMethods :
                    LET u == UrlOf(calls[c].url)
                        m == calls[c].fetchOpts.method
                        before == CacheGet(caches["global"], v, MethodOf(n))
                        after == CacheGet(caches'["global"], v, MethodOf(n))
                    IN  IF SameScope(u, m, v, n)
                        THEN after = [found |-> TRUE,
                                      macaroon |-> calls[c].challenge.macaroon,
                                      preimage |-> calls'[c].preimage]
                        ELSE after = before]_vars
    /\ [][\A c \in Callers :
            StartStep(c) =>
                LET v == UrlOf(calls'[c].url)
                    n == calls'[c].fetchOpts.method
                    held == {i \in 1..Len(caches["global"].entries) :
                                LET e == caches["global"].entries[i]
                                IN  /\ e.key.origin = v.origin
                                    /\ e.key.pathname = v.pathname
                                    /\ e.key.method = MethodOf(n)
                                    /\ now <= e.expiresAt}
                IN  /\ calls'[c].pc = "awaitCached" <=> held # {}
                    /\ Cardinality(held) <= 1
                    /\ \A i \in held :
                          calls'[c].log[1].auth =
                              AuthorizationValue(caches["global"].entries[i].macaroon,
                                                 caches["global"].entries[i].preimage)]_vars

\* one caller has stored a credential for /a with the method option "post",
\* and the other, calling /a?q=1 with "POST", sends that credential
C22_Witness ==
    \E c, d \in Callers :
        /\ calls[c].cacheSets = 1
        /\ calls[c].url = "https://h/a"
        /\ calls[c].fetchOpts.method = <<"p", "o", "s", "t">>
        /\ calls[d].pc = "awaitCached"
        /\ calls[d].url = "https://h/a?q=1"
        /\ calls[d].fetchOpts.method = <<"P", "O", "S", "T">>
        /\ calls[d].log[1].auth =
               AuthorizationValue(calls[c].challenge.macaroon, calls[c].preimage)
        /\ Len(caches["global"].entries) = 1

(***************************************************************************)
(* More claims about the credential cache, checked under SpecCache.        *)
(***************************************************************************)
\* the places of the entries of the cache whose expiresAt has not passed
LivePlaces == {i \in 1..Len(caches[TheCache].entries) :
                  ~(now > caches[TheCache].entries[i].expiresAt)}

\* the number of live places up to place i
LiveRank(i) == Cardinality({j \in LivePlaces : j <= i})

\* C31: after cleanup() no entry whose expiresAt has passed is left, and the
\* entries whose expiresAt has not passed are all there, each as it was
\* (key, macaroon, preimage, expiresAt, storedAt) and in the order they had;
\* the other fields of the cache are unchanged.
C31_SweepExact ==
    [][ApiStep("cleanup") =>
          /\ Len(caches'[TheCache].entries) = Cardinality(LivePlaces)
          /\ \A i \in LivePlaces :
                caches'[TheCache].entries[LiveRank(i)] = caches[TheCache].entries[i]
          /\ \A i \in 1..Len(caches'[TheCache].entries) :
                ~(now > caches'[TheCache].entries[i].expiresAt)
          /\ caches'[TheCache] =
                 [caches[TheCache] EXCEPT !.entries = caches'[TheCache].entries]]_vars

\* cleanup() ran on a cache of an expired entry and a live one, after the
\* clock had moved
C31_Witness ==
    /\ calls.last.op = "cleanup"
    /\ calls.last.sizeBefore = 2
    /\ nTick = 1
    /\ Len(caches[TheCache].entries) = 1
    /\ now <= caches[TheCache].entries[1].expiresAt

\* the cache holds an entry whose expiresAt has passed
ExpiredHeld ==
    \E i \in 1..Len(caches[TheCache].entries) :
        now > caches[TheCache].entries[i].expiresAt

\* the entry e is not in the cache after the step
Gone(e) ==
    \A j \in 1..Len(caches'[TheCache].entries) : caches'[TheCache].entries[j] # e

\* the step is a call of the method op with the key of the entry e
KeyStep(op, e) ==
    ApiStep(op) /\ CacheKey(calls'.last.url, calls'.last.method) = e.key

\* the step is a call that takes the entry e out of the cache: a get, an
\* invalidate, a clear, a cleanup, or a set that finds the cache full and e
\* the oldest entry
RemovalStep(e) ==
    \/ KeyStep("get", e)
    \/ KeyStep("invalidate", e)
    \/ ApiStep("clear")
    \/ ApiStep("cleanup")
    \/ /\ ApiStep("set")
       /\ Len(caches[TheCache].entries) >= caches[TheCache].maxSize
       /\ caches[TheCache].entries[1] = e

\* while the cache is open, expired entries do not stay for ever
SweptInTheEnd ==
    (~caches[TheCache].closed /\ ExpiredHeld)
        ~> (caches[TheCache].closed \/ ~ExpiredHeld)

\* C32 as first stated: while the cache is not closed the timer removes, in
\* the end, every entry whose expiresAt has passed, with no call made; after
\* close() such an entry stays until a get on its key, a cleanup, an
\* invalidate, a clear or an eviction at capacity removes it.
C32_StaysUntilRemoved ==
    /\ SweptInTheEnd
    /\ [][\A i \in 1..Len(caches[TheCache].entries) :
            LET e == caches[TheCache].entries[i]
            IN  (caches[TheCache].closed /\ now > e.expiresAt /\ Gone(e)) =>
                    RemovalStep(e)]_vars

\* C32: while the cache is not closed the timer removes, in the end, every
\* entry whose expiresAt has passed, with no call made; after close() such an
\* entry stays until a get on its key, a cleanup, an invalidate, a clear or an
\* eviction at capacity removes it, or a set on its key puts another entry in
\* its place.
C32_BackgroundSweep ==
    /\ SweptInTheEnd
    /\ [][\A i \in 1..Len(caches[TheCache].entries) :
            LET e == caches[TheCache].entries[i]
            IN  (caches[TheCache].closed /\ now > e.expiresAt /\ Gone(e)) =>
                    (RemovalStep(e) \/ KeyStep("set", e))]_vars

\* the last call was a set and the cache, still open, is empty: the timer
\* has removed the entry once its expiresAt had passed
C32_Witness ==
    /\ calls.last.op = "set"
    /\ calls.last.expiresAt = now - 1
    /\ ~caches[TheCache].closed
    /\ caches[TheCache].entries = <<>>
    /\ nTick = 1

\* the places of the cache that hold an entry under the key of the call
PlacesOf(call) ==
    {i \in 1..Len(caches[TheCache].entries) :
        caches[TheCache].entries[i].key = CacheKey(call.url, call.method)}

\* C39: a set under a key that the cache holds leaves every entry under
\* another key where it is, also in a full cache, and the size as it was.
C39_OverwriteInPlace ==
    [][(ApiStep("set") /\ PlacesOf(calls'.last) # {}) =>
          /\ Len(caches'[TheCache].entries) = Len(caches[TheCache].entries)
          /\ \A i \in 1..Len(caches[TheCache].entries) \ PlacesOf(calls'.last) :
                \E j \in 1..Len(caches'[TheCache].entries) :
                    caches'[TheCache].entries[j] = caches[TheCache].entries[i]]_vars

(***************************************************************************)
(* The claim about the table of pending obligations, checked under         *)
(* SpecTable.                                                              *)
(***************************************************************************)
\* the step in which the gate issues the challenge of request s
IssueStep(s) == reqs[s].pc = "awaitInvoice" /\ reqs'[s].statusCode = 402

\* the obligation under h is older than the expiry it was issued with
Overdue(h) == now - pendingHashes[h].createdAt > pendingHashes[h].expiryMs

\* C33: a challenge issued leaves in the table, under the issued
\* fingerprint, the obligation made of the invoice, the price, the time of
\* the issuance and the expiry, in the place of any former one; an
\* obligation leaves the table only in an issuance after whose own entry the
\* table holds more than 100, and only when its age is over its expiry; no
\* other obligation changes; admitting a proof leaves the table as it is.  A
\* table of obligations that are not overdue grows with every new
\* fingerprint, beyond 100.
C33_PendingTable ==
    /\ [][\A s \in Slots :
            IssueStep(s) =>
                LET h == reqs'[s].invoiceResult.paymentHash
                IN  /\ h \in DOMAIN pendingHashes'
                    /\ pendingHashes'[h] =
                           [invoice |-> reqs'[s].invoiceResult.invoice,
                            amountSats |-> gateCfg.amountSats,
                            createdAt |-> now,
                            expiryMs |-> gateCfg.expirySeconds * 1000]
                    /\ \A k \in (DOMAIN pendingHashes \cap DOMAIN pendingHashes') \ {h} :
                          pendingHashes'[k] = pendingHashes[k]
                    /\ DOMAIN pendingHashes' \subseteq DOMAIN pendingHashes \cup {h}]_vars
    /\ [][\A k \in DOMAIN pendingHashes \ DOMAIN pendingHashes' :
            /\ Overdue(k)
            /\ \E s \in Slots :
                  /\ IssueStep(s)
                  /\ Cardinality(DOMAIN pendingHashes
                                     \cup {reqs'[s].invoiceResult.paymentHash})
                         > 100]_vars
    /\ [][(\E s \in Slots : IssueStep(s)
                /\ reqs'[s].invoiceResult.paymentHash \notin DOMAIN pendingHashes
                /\ \A k \in DOMAIN pendingHashes : ~Overdue(k)) =>
            Cardinality(DOMAIN pendingHashes') = Cardinality(DOMAIN pendingHashes) + 1]_vars
    /\ [][(\A s \in Slots : ~IssueStep(s)) => pendingHashes' = pendingHashes]_vars

\* an issuance into a table of more than 100 obligations has removed the
\* overdue ones and left the others
C33_Witness ==
    /\ Cardinality(DOMAIN pendingHashes) \in 2..(PendingSweepThreshold - 10)
    /\ HashOf(200) \in DOMAIN pendingHashes
    /\ \E s \in Slots : reqs[s].statusCode = 402

(***************************************************************************)
(* The claim about the end of a call, checked under SpecClientLive.        *)
(***************************************************************************)
\* the fetches of call c are, in this order and each at most once, the one
\* with the cached credential, the bare one and the replay
FetchesInOrder(c) ==
    /\ Len(calls[c].log) <= 3
    /\ \A k \in {"cached", "bare", "replay"} : Cardinality(Fetches(c, k)) <= 1
    /\ \A i \in Fetches(c, "cached") : i = 1
    /\ \A i \in Fetches(c, "replay") : i = Len(calls[c].log) /\ Fetches(c, "bare") = {i - 1}

\* C34: when every fetch and every wallet call completes, a call that has
\* started ends, with a response or an error; it makes at most three
\* fetches, the cached attempt, the bare fetch and the replay, and calls
\* payInvoice at most once.
C34_Terminates ==
    /\ [](\A c \in CallIds :
            /\ FetchesInOrder(c)
            /\ calls[c].payCalls <= 1
            /\ calls[c].pc = "done" <=> calls[c].result.kind \in {"response", "error"})
    /\ \A c \in CallIds :
            (calls[c].pc \notin {"idle", "done"}) ~> (calls[c].pc = "done")

\* a call has ended with the response to its third fetch, after one payment
C34_Witness ==
    \E c \in CallIds :
        /\ calls[c].pc = "done"
        /\ calls[c].result.kind = "response"
        /\ calls[c].result.dispatch = 3
        /\ Len(calls[c].log) = 3
        /\ calls[c].payCalls = 1

(***************************************************************************)
(* The claims about callers at once, checked under SpecRace.               *)
(***************************************************************************)
\* the key under which caller c reads and writes the cache
KeyOfCaller(c) == CacheKey(UrlOf(calls[c].url), calls[c].method)

\* the places of the global cache that hold an entry under the key k
PlacesUnder(entries, k) == {i \in 1..Len(entries) : entries[i].key = k}

\* C35: a call that finds no credential under its key makes the bare fetch
\* and, on the 402, calls payInvoice, whatever other call is under way for
\* that key: two calls started on an empty cache both pay.  Each of them
\* then writes its credential under the key, so that the cache holds one
\* entry under the key, that of the call that wrote last.
C35_NotCoalesced ==
    /\ [][\A c \in Callers :
            (StartStep(c)
                /\ PlacesUnder(caches["global"].entries,
                               CacheKey(UrlOf(calls'[c].url), calls'[c].method)) = {}) =>
                /\ calls'[c].pc = "awaitBare"
                /\ Len(calls'[c].log) = 1
                /\ calls'[c].log[1].auth = <<>>]_vars
    /\ [][\A c \in Callers :
            BareAnswerStep(c) =>
                /\ calls'[c].pc = "awaitPay"
                /\ calls'[c].payCalls = 1]_vars
    /\ [][\A c \in Callers :
            StoreStep(c) =>
                LET k == KeyOfCaller(c)
                    before == caches["global"].entries
                    after == caches'["global"].entries
                IN  /\ Cardinality(PlacesUnder(after, k)) = 1
                    /\ \A i \in PlacesUnder(after, k) :
                          /\ after[i].preimage = calls'[c].preimage
                          /\ after[i].macaroon = calls[c].challenge.macaroon
                    /\ Len(after) = IF PlacesUnder(before, k) = {} THEN Len(before) + 1
                                    ELSE Len(before)]_vars
    /\ [](\A i, j \in 1..Len(caches["global"].entries) :
            caches["global"].entries[i].key = caches["global"].entries[j].key => i = j)

\* two callers that started on the empty cache, one with /a and one with
\* /a?q=1, have paid with different preimages; the cache holds one entry,
\* with the preimage of one of them
C35_Witness ==
    \E c, d \in Callers :
        /\ c # d
        /\ calls[c].url = "https://h/a"
        /\ calls[d].url = "https://h/a?q=1"
        /\ calls[c].method = calls[d].method
        /\ calls[c].log[1].kind = "bare"
        /\ calls[d].log[1].kind = "bare"
        /\ calls[c].payCalls = 1
        /\ calls[d].payCalls = 1
        /\ calls[c].cacheSets = 1
        /\ calls[d].cacheSets = 1
        /\ calls[c].preimage # calls[d].preimage
        /\ Len(caches["global"].entries) = 1
        /\ caches["global"].entries[1].preimage = calls[d].preimage

\* C36: when a call invalidates because the credential it sent was
\* rejected, a credential other than the one it sent, stored under its key
\* by another call since it sent its own, stays in the cache.
C36_InvalidateOnlyRejected ==
    [][\A c \in Callers :
          (CachedAnswerStep(c) /\ calls'[c].cacheInvalidates = calls[c].cacheInvalidates + 1) =>
              \A i \in PlacesUnder(caches["global"].entries, KeyOfCaller(c)) :
                  LET e == caches["global"].entries[i]
                  IN  AuthorizationValue(e.macaroon, e.preimage) # calls[c].log[1].auth =>
                          \E j \in 1..Len(caches'["global"].entries) :
                              caches'["global"].entries[j] = e]_vars

(***************************************************************************)
(* The claim about the clients of createL402Client, checked under          *)
(* SpecFactory.                                                            *)
(***************************************************************************)
\* C37: no call of a client created with cache: false uses a cache, and the
\* global cache stays empty; every call of a client created with a cache
\* uses the cache of the client or none, and the global cache stays empty.
C37_ClientCacheOnly ==
    /\ \A c \in CallIds :
          calls[c].cache \in {"none", ClientCache}
    /\ caches["global"].entries = <<>>
    /\ ClientCache = "none" => \A c \in CallIds : calls[c].cacheSets = 0

(***************************************************************************)
(* Claims about the paid credential, checked under SpecClient.             *)
(***************************************************************************)
\* C38: once payInvoice has yielded a preimage, the call has written the
\* credential to its cache, when it has one, and has sent the replay with
\* that preimage, whether or not onPayment was called and whatever it did.
C38_ProofSurvivesCallback ==
    \A c \in CallIds :
        calls[c].preimage # <<>> =>
            /\ calls[c].cache # "none" => calls[c].cacheSets = 1
            /\ \E i \in Fetches(c, "replay") :
                  calls[c].log[i].auth =
                      AuthorizationValue(calls[c].challenge.macaroon, calls[c].preimage)
            /\ calls[c].result.kind # "error"

\* the step in which call c takes the answer to its replay and returns
ReplayAnswerStep(c) == calls[c].pc = "awaitReplay" /\ calls'[c].pc = "done"

\* the step in which call c invalidates after its cached credential was
\* rejected
InvalidateStep(c) ==
    CachedAnswerStep(c) /\ calls'[c].cacheInvalidates = calls[c].cacheInvalidates + 1

\* the entry e of the global cache is not in it after the step
Dropped(e) ==
    \A j \in 1..Len(caches'["global"].entries) : caches'["global"].entries[j] # e

\* the entry e goes by the rejection of a cached credential under its key,
\* by its expiry, or from a full cache as the oldest entry
RemovedAsStated(e) ==
    \/ \E c \in Callers : InvalidateStep(c) /\ KeyOfCaller(c) = e.key
    \/ now > e.expiresAt
    \/ \E c \in Callers :
          /\ StoreStep(c)
          /\ Len(caches["global"].entries) >= caches["global"].maxSize
          /\ caches["global"].entries[1] = e

\* the answer to the replay, whatever it is, leaves the cache as it is
ReplayLeavesCache == [][\A c \in Callers : ReplayAnswerStep(c) => caches' = caches]_vars

\* C40 as first stated: the answer to the replay, 401 and 402 too, leaves
\* the cache as it is, and the credential a call has written is there when
\* the call returns: it goes only when a cached credential under its key is
\* rejected, when it expires, or in an eviction at capacity.
C40_StaysCached ==
    /\ ReplayLeavesCache
    /\ [][\A i \in 1..Len(caches["global"].entries) :
            Dropped(caches["global"].entries[i]) =>
                RemovedAsStated(caches["global"].entries[i])]_vars

\* C40: the answer to the replay, 401 and 402 too, leaves the cache as it
\* is; the credential a call has written goes only when a cached credential
\* under its key is rejected, when it expires, in an eviction at capacity,
\* or when another call under way writes its own credential under the key.
C40_StaysUnlessOverwritten ==
    /\ ReplayLeavesCache
    /\ [][\A i \in 1..Len(caches["global"].entries) :
            LET e == caches["global"].entries[i]
            IN  Dropped(e) =>
                    \/ RemovedAsStated(e)
                    \/ \E c \in Callers : StoreStep(c) /\ KeyOfCaller(c) = e.key]_vars

\* a call has returned the 401 that answered its replay, and the credential
\* it paid for is in the cache under its key
C40_Witness ==
    \E c \in Callers :
        /\ calls[c].pc = "done"
        /\ calls[c].result.kind = "response"
        /\ calls[c].result.resp.status = 401
        /\ calls[c].log[calls[c].result.dispatch].kind = "replay"
        /\ \E i \in PlacesUnder(caches["global"].entries, KeyOfCaller(c)) :
              caches["global"].entries[i].preimage = calls[c].preimage

====
